---- MODULE Spec2Model ----
(***************************************************************************)
(* Transit incident reconciliation engine of publictransit-systems:       *)
(* the per-agency fetch pipelines (BART, Sound Transit, NYC Subway,       *)
(* Baltimore Metro / Light Rail, CTA), the WMATA and Tokyo Metro worker   *)
(* processors, the station-name normalizers, the offline NYC entrance     *)
(* matcher, the incident aggregator getIncidents with its cache, and the  *)
(* incidents worker (fetch and scheduled handlers over its KV store).     *)
(*                                                                         *)
(* Conventions                                                             *)
(*  - a JS string that is only searched for keywords is a set of tokens   *)
(*    (String.includes(k) / RegExp.test are membership of the token);     *)
(*  - a JS string that is rewritten character by character (station       *)
(*    names) is a sequence of one-character strings;                      *)
(*  - a Record<string, T[]> is a function whose DOMAIN is Object.keys;    *)
(*  - wall-clock time (Date.now()) is counted in units of 50 s, so that   *)
(*    the 5-minute TTLs are 6 units; the clock advances by 150 s a step,  *)
(*    and by 100 s a step where the age of the shared Baltimore feed is   *)
(*    followed, so that two waits each shorter than a TTL can add up to   *)
(*    more than one;                                                      *)
(*  - epoch seconds of a feed are counted in units of 10^6 s so that the  *)
(*    ECMAScript Date range limit (8.64e15 ms) fits in a TLC integer.     *)
(***************************************************************************)
EXTENDS Integers, Sequences, FiniteSets, TLC

VARIABLES
    now,                    \* Date.now(), in units of 50 s
    incidentCache,          \* data.ts incidentCache: systemId -> entry
    mtaMarylandFeedCache,   \* data.ts mtaMarylandFeedCache
    workerUrlSet,           \* whether process.env.INCIDENTS_WORKER_URL is set
    calls,                  \* getIncidents invocations awaiting the network
    lastCall,               \* per systemId: the most recent finished call
    started,                \* number of getIncidents calls started
    inp,                    \* argument of the function under evaluation
    out,                    \* its result
    kv,                     \* the worker's INCIDENTS_KV: key -> stored JSON
    handlers,               \* invocations of the worker awaiting upstream
    resp,                   \* what the worker invocation that finished last answered
    served,                 \* number of worker invocations started
    nycStationIndex,        \* data.ts nycStationIndex: null or the Map
    builds                  \* number of Maps getNycStationIndex has created

vars == <<now, incidentCache, mtaMarylandFeedCache, workerUrlSet, calls,
          lastCall, started, inp, out, kv, handlers, resp, served,
          nycStationIndex, builds>>

\* the lazily built NYC station index
idxVars == <<nycStationIndex, builds>>

\* the state of the incidents worker
wrkVars == <<kv, handlers, resp, served>>

\* the state of the site's server process
siteVars == <<now, incidentCache, mtaMarylandFeedCache, workerUrlSet, calls,
              lastCall, started, idxVars>>

aggVars == <<siteVars, wrkVars>>

-----------------------------------------------------------------------------
(* Bounds of the model *)

MaxTime == 2        \* steps of the clock in one behaviour
MaxCalls == 2       \* getIncidents calls started in one behaviour
MaxLen == 4         \* longest station-name string enumerated
MaxFeed == 2        \* longest feed / raw record list enumerated

-----------------------------------------------------------------------------
(* Generic helpers *)

Range(s) == {s[i] : i \in 1..Len(s)}

Includes(s, x) == \E i \in 1..Len(s) : s[i] = x

SeqsUpTo(S, n) == UNION {[1..k -> S] : k \in 0..n}

NoKeys == [k \in {} |-> <<>>]

\* JS: if (!rec[k]) rec[k] = [];
EnsureKey(rec, k) == IF k \in DOMAIN rec THEN rec ELSE rec @@ (k :> <<>>)

\* JS: rec[k].push(v)   (rec[k] exists)
PushAt(rec, k, v) == [rec EXCEPT ![k] = Append(@, v)]

RECURSIVE SumLens(_, _)
SumLens(rec, keys) ==
    IF keys = {} THEN 0
    ELSE LET k == CHOOSE x \in keys : TRUE
         IN Len(rec[k]) + SumLens(rec, keys \ {k})

CountType(rec, ty) ==
    LET OfType(k) == SelectSeq(rec[k], LAMBDA o : o.unitType = ty)
    IN SumLens([k \in DOMAIN rec |-> OfType(k)], DOMAIN rec)

-----------------------------------------------------------------------------
(* Timestamps *)

\* ECMAScript: a time value beyond 8.64e15 ms is an Invalid Date and
\* Date.prototype.toISOString throws RangeError on it.  Units: 10^6 s.
MaxDateSec == 8640000

\* new Date(Number(t) * 1000).toISOString() is defined for t
IsoOk(t) == t <= MaxDateSec

\* startTime ? new Date(Number(startTime) * 1000).toISOString()
\*           : new Date().toISOString()
\* ISO strings are represented by tagged records.
PostedAt(startTime, t) ==
    IF startTime # 0 THEN [iso |-> "feed", v |-> startTime]
    ELSE [iso |-> "now", v |-> t]

\* endTime ? new Date(Number(endTime) * 1000).toISOString() : null
ExpiresAt(endTime) ==
    IF endTime # 0 THEN [iso |-> "feed", v |-> endTime]
    ELSE [iso |-> "null", v |-> 0]

-----------------------------------------------------------------------------
(* Text search *)

\* findStationsInTextByPattern: the ids of the patterns that match, in
\* pattern order, each id once.
RECURSIVE FindFrom(_, _, _, _)
FindFrom(text, patterns, i, found) ==
    IF i > Len(patterns) THEN found
    ELSE IF patterns[i].pattern \in text /\ ~Includes(found, patterns[i].stationId)
         THEN FindFrom(text, patterns, i + 1, Append(found, patterns[i].stationId))
         ELSE FindFrom(text, patterns, i + 1, found)

findStationsInTextByPattern(text, patterns) == FindFrom(text, patterns, 1, <<>>)

DisruptionWords == {"out of service", "unavailable", "closed", "outage"}

hasElevatorOutage(fullText) ==
    "elevator" \in fullText /\ fullText \cap DisruptionWords # {}

\* hasEscalatorOutage without the disruption keywords
hasEscalatorOutageKeywordOnly(fullText) == "escalator" \in fullText

hasEscalatorOutage(fullText) ==
    "escalator" \in fullText /\ fullText \cap DisruptionWords # {}

SyntheticOutage(name, ty, headerText, postedAt, expiresAt) ==
    [unitName |-> name, unitType |-> ty, location |-> headerText,
     symptom |-> "Out of service", outOfServiceSince |-> postedAt,
     estimatedReturn |-> expiresAt, updatedAt |-> postedAt]

\* One station of the loop with the elevator counter stepped for every
\* entry pushed, whatever its type.
DetectAtStationMiscount(acc, stationId, el, es, headerText, postedAt, expiresAt) ==
    LET o0 == EnsureKey(acc.obs, stationId)
        o1 == IF el THEN PushAt(o0, stationId,
                    SyntheticOutage("Elevator", "elevator", headerText, postedAt, expiresAt))
              ELSE o0
        o2 == IF es THEN PushAt(o1, stationId,
                    SyntheticOutage("Escalator", "escalator", headerText, postedAt, expiresAt))
              ELSE o1
    IN [obs |-> o2,
        elevatorOutages |-> acc.elevatorOutages + (IF el THEN 1 ELSE 0) + (IF es THEN 1 ELSE 0),
        escalatorOutages |-> acc.escalatorOutages]

\* One station of the loop of detectEquipmentOutages.
DetectAtStation(acc, stationId, el, es, headerText, postedAt, expiresAt) ==
    LET o0 == EnsureKey(acc.obs, stationId)
        o1 == IF el THEN PushAt(o0, stationId,
                    SyntheticOutage("Elevator", "elevator", headerText, postedAt, expiresAt))
              ELSE o0
        o2 == IF es THEN PushAt(o1, stationId,
                    SyntheticOutage("Escalator", "escalator", headerText, postedAt, expiresAt))
              ELSE o1
    IN [obs |-> o2,
        elevatorOutages |-> acc.elevatorOutages + (IF el THEN 1 ELSE 0),
        escalatorOutages |-> acc.escalatorOutages + (IF es THEN 1 ELSE 0)]

RECURSIVE DetectLoop(_, _, _, _, _, _, _, _)
DetectLoop(acc, stations, i, el, es, headerText, postedAt, expiresAt) ==
    IF i > Len(stations) THEN acc
    ELSE DetectLoop(DetectAtStation(acc, stations[i], el, es, headerText, postedAt, expiresAt),
                    stations, i + 1, el, es, headerText, postedAt, expiresAt)

\* detectEquipmentOutages: returns the updated outagesByStation together
\* with the two counts of entries added.
detectEquipmentOutages(fullText, affectedStations, outagesByStation, headerText, postedAt, expiresAt) ==
    LET el == hasElevatorOutage(fullText)
        es == hasEscalatorOutage(fullText)
        acc0 == [obs |-> outagesByStation, elevatorOutages |-> 0, escalatorOutages |-> 0]
    IN IF (el \/ es) /\ Len(affectedStations) > 0
       THEN DetectLoop(acc0, affectedStations, 1, el, es, headerText, postedAt, expiresAt)
       ELSE acc0

\* mapGtfsEffect without `case 6`
mapGtfsEffectNoModified(effect) ==
    CASE effect = 1 -> "emergency"
      [] effect \in {2, 3, 4} -> "delay"
      [] OTHER -> "advisory"

\* mapGtfsEffect; -1 stands for null / undefined
mapGtfsEffect(effect) ==
    CASE effect = 1 -> "emergency"
      [] effect \in {2, 3, 4, 6} -> "delay"
      [] OTHER -> "advisory"

-----------------------------------------------------------------------------
(* Station-name normalization.  A name is a sequence of characters; the   *)
(* characters outside ASCII are written by name: "ndash" is U+2013,       *)
(* "rsquo" is U+2019.  "B" stands for the upper-case letters, "a" and "b" *)
(* for the lower-case ones.                                                *)

Chars == {"a", "B", " ", "-", "ndash", "/", "\\", "(", ")", "rsquo"}

\* String.prototype.toLowerCase
ToLowerCase(s) == [i \in DOMAIN s |-> IF s[i] = "B" THEN "b" ELSE s[i]]

\* s.replace(/[set]/g, c)
ReplaceEach(s, set, c) == [i \in DOMAIN s |-> IF s[i] \in set THEN c ELSE s[i]]

\* index of the first ")" at or after position i, 0 when there is none
RECURSIVE FirstClose(_, _)
FirstClose(s, i) ==
    IF i > Len(s) THEN 0
    ELSE IF s[i] = ")" THEN i ELSE FirstClose(s, i + 1)

\* s.replace(/\([^)]*\)/g, ""): leftmost matches, scanning left to right
RECURSIVE StripFrom(_, _)
StripFrom(s, i) ==
    IF i > Len(s) THEN <<>>
    ELSE IF s[i] = "(" /\ FirstClose(s, i + 1) # 0
         THEN StripFrom(s, FirstClose(s, i + 1) + 1)
         ELSE <<s[i]>> \o StripFrom(s, i + 1)

StripParens(s) == StripFrom(s, 1)

\* s.replace(/\s+/g, " ")
RECURSIVE CollapseFrom(_, _)
CollapseFrom(s, i) ==
    IF i > Len(s) THEN <<>>
    ELSE IF s[i] = " " /\ i > 1 /\ s[i - 1] = " "
         THEN CollapseFrom(s, i + 1)
         ELSE <<s[i]>> \o CollapseFrom(s, i + 1)

CollapseWhitespace(s) == CollapseFrom(s, 1)

\* String.prototype.trim
RECURSIVE TrimLeft(_)
TrimLeft(s) == IF Len(s) > 0 /\ s[1] = " " THEN TrimLeft(Tail(s)) ELSE s

RECURSIVE TrimRight(_)
TrimRight(s) ==
    IF Len(s) > 0 /\ s[Len(s)] = " " THEN TrimRight(SubSeq(s, 1, Len(s) - 1)) ELSE s

Trim(s) == TrimRight(TrimLeft(s))

\* A slip in the order of the steps: whitespace is collapsed before the
\* dashes are turned into spaces.
normalizeStationNameDashLast(name) ==
    Trim(ReplaceEach(CollapseWhitespace(StripParens(
        ReplaceEach(ToLowerCase(name), {"/", "\\"}, " "))), {"ndash", "-"}, " "))

\* data.ts normalizeStationName (live resolver)
normalizeStationName(name) ==
    Trim(CollapseWhitespace(StripParens(
        ReplaceEach(ReplaceEach(ToLowerCase(name), {"ndash", "-"}, " "),
                    {"/", "\\"}, " "))))

\* generate-nyc-entrances normalizeName (offline matcher)
normalizeName(name) ==
    Trim(CollapseWhitespace(StripParens(
        ReplaceEach(
            ReplaceEach(ReplaceEach(ToLowerCase(name), {"ndash", "-"}, " "),
                        {"rsquo"}, "'"),
            {"/"}, " "))))

Names == SeqsUpTo(Chars, MaxLen)

-----------------------------------------------------------------------------
(* Offline NYC entrance matcher (generate-nyc-entrances).  Coordinates    *)
(* are points of a small integer grid; haversineMeters is represented by  *)
(* the squared planar distance, which orders nearby points the same way.  *)

MaxRoutes == 2      \* longest daytimeRoutes list enumerated
MaxPos == 1         \* grid positions 0..MaxPos

\* c.coordinates ? haversineMeters(...) : Infinity
Infinity == 1000000

\* SHUTTLE_ROUTE_MAP
SHUTTLE_ROUTE_MAP(route) ==
    IF route = "S" THEN <<"S-42", "S-franklin", "S-rockaway">> ELSE <<>>

RECURSIVE CountIncluded(_, _, _)
CountIncluded(list, i, stationLines) ==
    IF i > Len(list) THEN 0
    ELSE (IF list[i] \in stationLines THEN 1 ELSE 0)
         + CountIncluded(list, i + 1, stationLines)

\* lineOverlap(csvRoutes, stationLines)
RECURSIVE lineOverlapFrom(_, _, _)
lineOverlapFrom(csvRoutes, i, stationLines) ==
    IF i > Len(csvRoutes) THEN 0
    ELSE (IF csvRoutes[i] \in stationLines THEN 1 ELSE 0)
         + CountIncluded(SHUTTLE_ROUTE_MAP(csvRoutes[i]), 1, stationLines)
         + lineOverlapFrom(csvRoutes, i + 1, stationLines)

lineOverlap(csvRoutes, stationLines) == lineOverlapFrom(csvRoutes, 1, stationLines)

haversineMeters(lat1, lng1, lat2, lng2) ==
    (lat2 - lat1) * (lat2 - lat1) + (lng2 - lng1) * (lng2 - lng1)

\* scored = candidates.map(c => ({station, overlap, dist}))
Scored(row, candidates) ==
    [i \in 1..Len(candidates) |->
        [station |-> candidates[i],
         overlap |-> lineOverlap(row.daytimeRoutes, candidates[i].lines),
         dist |-> IF candidates[i].hasCoordinates
                  THEN haversineMeters(candidates[i].lat, candidates[i].lng, row.lat, row.lng)
                  ELSE Infinity]]

\* Math.max(...scored.map(s => s.overlap))
MaxOverlap(scored) ==
    CHOOSE m \in {scored[i].overlap : i \in 1..Len(scored)} :
        \A i \in 1..Len(scored) : scored[i].overlap <= m

\* a margin of 2 instead of 1
TopCandidatesMargin2(scored, maxOverlap) ==
    SelectSeq(scored, LAMBDA x : x.overlap >= maxOverlap - 2 /\ x.overlap >= 0)

\* scored.filter(s => s.overlap >= maxOverlap - 1 && s.overlap >= 0)
TopCandidates(scored, maxOverlap) ==
    SelectSeq(scored, LAMBDA x : x.overlap >= maxOverlap - 1 /\ x.overlap >= 0)

\* Array.prototype.sort((a, b) => a.dist - b.dist): a stable sort
RECURSIVE InsertByDist(_, _)
InsertByDist(sorted, x) ==
    IF sorted = <<>> THEN <<x>>
    ELSE IF x.dist - Head(sorted).dist < 0 THEN <<x>> \o sorted
         ELSE <<Head(sorted)>> \o InsertByDist(Tail(sorted), x)

RECURSIVE SortByDistFrom(_, _, _)
SortByDistFrom(list, i, sorted) ==
    IF i > Len(list) THEN sorted
    ELSE SortByDistFrom(list, i + 1, InsertByDist(sorted, list[i]))

SortByDist(list) == SortByDistFrom(list, 1, <<>>)

\* step 5 of main for one CSV row whose normalized (aliased) name has the
\* candidate list `candidates` (non-empty) in the station index
BestStation(row, candidates) ==
    IF Len(candidates) = 1 THEN candidates[1]
    ELSE LET scored == Scored(row, candidates)
             topCandidates == SortByDist(TopCandidates(scored, MaxOverlap(scored)))
         IN topCandidates[1].station

MatcherLines == {"A", "C", "S-42"}

MatcherRoutes == {"A", "C", "S"}

Positions == 0..MaxPos

CsvRows ==
    [daytimeRoutes : SeqsUpTo(MatcherRoutes, MaxRoutes), lat : Positions, lng : {0}]

CandidateStation(id) ==
    [id : {id}, lines : SUBSET MatcherLines, hasCoordinates : BOOLEAN,
     lat : Positions, lng : {0}]

\* a station without coordinates has no lat / lng to read
WellFormed(c) == c.hasCoordinates \/ c.lat = 0

CandidateLists ==
    {<<c1>> : c1 \in {c \in CandidateStation("s1") : WellFormed(c)}}
    \cup
    {<<c1, c2>> : c1 \in {c \in CandidateStation("s1") : WellFormed(c)},
                  c2 \in {c \in CandidateStation("s2") : WellFormed(c)}}

-----------------------------------------------------------------------------
(* Assembly of IncidentData *)

\* Object.keys(outagesByStation).length counted as the number of outages
StationsAffectedByOutages(outagesByStation) ==
    SumLens(outagesByStation, DOMAIN outagesByStation)

\* Object.keys(outagesByStation).length
StationsAffected(outagesByStation) == Cardinality(DOMAIN outagesByStation)

\* the return statement of the GTFS-RT, NYC and CTA pipelines
IncidentData(systemId, acc, t) ==
    [fetchedAt |-> t,
     systemId |-> systemId,
     summary |-> [totalOutages |-> acc.elevatorOutages + acc.escalatorOutages,
                  elevatorOutages |-> acc.elevatorOutages,
                  escalatorOutages |-> acc.escalatorOutages,
                  stationsAffected |-> StationsAffected(acc.obs),
                  activeAlerts |-> Len(acc.alerts)],
     alerts |-> acc.alerts,
     outagesByStation |-> acc.obs]

Data(d) == [kind |-> "data", data |-> d]

Null == [kind |-> "null"]

Throw == [kind |-> "throw"]

Acc0 == [alerts |-> <<>>, obs |-> NoKeys, elevatorOutages |-> 0,
         escalatorOutages |-> 0, threw |-> FALSE]

\* alert.headerText?.translation?.[0]?.text || "Service Alert"
HeaderText(entity) == IF entity.header = {} THEN {"Service Alert"} ELSE entity.header

\* the two toISOString conversions of an alert's active period succeed
PeriodOk(entity) ==
    /\ entity.start # 0 => IsoOk(entity.start)
    /\ entity.end # 0 => IsoOk(entity.end)

\* table[key] of a Record<string, string>; "" stands for undefined
Lookup(table, key) == IF key \in DOMAIN table THEN table[key] ELSE ""

\* affectedLines of an alert: the mapped route ids, each once
RECURSIVE LinesFrom(_, _, _, _)
LinesFrom(informed, i, routes, lines) ==
    IF i > Len(informed) THEN lines
    ELSE LET lineId == IF informed[i].routeId # "" THEN Lookup(routes, informed[i].routeId)
                       ELSE ""
         IN IF lineId # "" /\ ~Includes(lines, lineId)
            THEN LinesFrom(informed, i + 1, routes, Append(lines, lineId))
            ELSE LinesFrom(informed, i + 1, routes, lines)

ServiceAlert(entity, type, title, lines, stations, postedAt, expiresAt) ==
    [id |-> entity.id, type |-> type, title |-> title, description |-> entity.desc,
     affectedLines |-> lines, affectedStations |-> stations,
     postedAt |-> postedAt, expiresAt |-> expiresAt]

\* the tail common to the GTFS-RT alert loops: detect the outages, add
\* the counts, push the alert
WithAlert(acc, entity, lines, stations, t) ==
    LET headerText == HeaderText(entity)
        postedAt == PostedAt(entity.start, t)
        expiresAt == ExpiresAt(entity.end)
        equipment == detectEquipmentOutages(headerText \cup entity.desc, stations,
                                            acc.obs, headerText, postedAt, expiresAt)
    IN [alerts |-> Append(acc.alerts,
                     ServiceAlert(entity, mapGtfsEffect(entity.effect), headerText,
                                  lines, stations, postedAt, expiresAt)),
        obs |-> equipment.obs,
        elevatorOutages |-> acc.elevatorOutages + equipment.elevatorOutages,
        escalatorOutages |-> acc.escalatorOutages + equipment.escalatorOutages,
        threw |-> FALSE]

-----------------------------------------------------------------------------
(* Upstream responses.  status is "ok" (2xx and the body decodes; body is  *)
(* the decoded payload), "non2xx", "neterr" (fetch rejects) or             *)
(* "undecodable" (2xx, but protobuf decoding / response.json() throws).    *)

Ok(body) == [status |-> "ok", body |-> body]

Failed(status) == [status |-> status]

Failures == {Failed("non2xx"), Failed("neterr"), Failed("undecodable")}

\* a FeedEntity of a GTFS-RT feed: header / desc are the keywords of the
\* alert's texts, start / end the active period in epoch seconds (0: absent)
GtfsEntity(hasAlert, header, desc, informed, start) ==
    [id |-> "e", hasAlert |-> hasAlert, header |-> header, desc |-> desc,
     effect |-> IF start = 0 THEN 1 ELSE 3, informed |-> informed,
     start |-> start, end |-> 0]

\* an informed_entity selector
Informed(routeId, stopId, agencyId) ==
    [routeId |-> routeId, stopId |-> stopId, agencyId |-> agencyId]

\* fetchGtfsRtFeed: the decoded feed, or null (ok = FALSE) on a non-2xx
\* response and on anything thrown by fetch or by the decoder
fetchGtfsRtFeed(response) ==
    IF response.status = "ok" THEN [ok |-> TRUE, entity |-> response.body]
    ELSE [ok |-> FALSE, entity |-> <<>>]

-----------------------------------------------------------------------------
(* Sound Transit *)

\* rows of SOUND_TRANSIT_ROUTES
SOUND_TRANSIT_ROUTES ==
    ("100479" :> "1-line") @@ ("1LINE" :> "1-line") @@ ("2LINE" :> "2-line")

\* rows of SOUND_TRANSIT_STATION_PATTERNS
SOUND_TRANSIT_STATION_PATTERNS ==
    <<[pattern |-> "westlake", stationId |-> "westlake"],
      [pattern |-> "stadium", stationId |-> "stadium"]>>

\* one iteration of the loop over feed.entity
SoundTransitEntity(acc, entity, t) ==
    IF acc.threw \/ ~entity.hasAlert THEN acc
    ELSE LET fullText == HeaderText(entity) \cup entity.desc
             affectedLines == LinesFrom(entity.informed, 1, SOUND_TRANSIT_ROUTES, <<>>)
             affectedStations ==
                 findStationsInTextByPattern(fullText, SOUND_TRANSIT_STATION_PATTERNS)
         IN IF ~PeriodOk(entity) THEN [acc EXCEPT !.threw = TRUE]
            ELSE WithAlert(acc, entity, affectedLines, affectedStations, t)

RECURSIVE SoundTransitLoop(_, _, _, _)
SoundTransitLoop(acc, entities, i, t) ==
    IF i > Len(entities) THEN acc
    ELSE SoundTransitLoop(SoundTransitEntity(acc, entities[i], t), entities, i + 1, t)

\* fetchSoundTransitIncidents, given the answer of the alerts endpoint.
\* The loop is not inside a try block: what it throws propagates.
fetchSoundTransitIncidents(response, t) ==
    LET feed == fetchGtfsRtFeed(response)
    IN IF ~feed.ok THEN Null
       ELSE LET acc == SoundTransitLoop(Acc0, feed.entity, 1, t)
            IN IF acc.threw THEN Throw
               ELSE Data(IncidentData("sound-transit", acc, t))

-----------------------------------------------------------------------------
(* Baltimore Metro SubwayLink and Light RailLink *)

MTA_MARYLAND_LIGHT_RAIL_ROUTE == "11693"

MTA_MARYLAND_METRO_ROUTE == "11682"

\* rows of BALTIMORE_METRO_STOPS
BALTIMORE_METRO_STOPS ==
    ("s0009" :> "upton") @@ ("s0011" :> "lexington-market")

\* rows of BALTIMORE_LIGHT_RAIL_STOPS
BALTIMORE_LIGHT_RAIL_STOPS ==
    ("s7016" :> "lexington-market") @@ ("s7020" :> "penn-station")
    @@ ("s7034" :> "penn-station")

BALTIMORE_METRO_STATION_PATTERNS ==
    <<[pattern |-> "upton", stationId |-> "upton"],
      [pattern |-> "lexington market", stationId |-> "lexington-market"]>>

BALTIMORE_LIGHT_RAIL_STATION_PATTERNS ==
    <<[pattern |-> "lexington market", stationId |-> "lexington-market"],
      [pattern |-> "penn station", stationId |-> "penn-station"]>>

\* affectedStations from the stop ids of informed_entity
RECURSIVE StopsFrom(_, _, _, _)
StopsFrom(informed, i, stopMapping, stations) ==
    IF i > Len(informed) THEN stations
    ELSE LET stationId == IF informed[i].stopId # "" THEN Lookup(stopMapping, informed[i].stopId)
                          ELSE ""
         IN IF stationId # "" /\ ~Includes(stations, stationId)
            THEN StopsFrom(informed, i + 1, stopMapping, Append(stations, stationId))
            ELSE StopsFrom(informed, i + 1, stopMapping, stations)

\* for (const stationId of textMatched) if (!includes) push
RECURSIVE AddMissing(_, _, _)
AddMissing(stations, textMatched, i) ==
    IF i > Len(textMatched) THEN stations
    ELSE AddMissing(IF Includes(stations, textMatched[i]) THEN stations
                    ELSE Append(stations, textMatched[i]),
                    textMatched, i + 1)

BaltimoreEntity(acc, entity, targetRouteId, stopMapping, stationPatterns, lineId, t) ==
    IF acc.threw \/ ~entity.hasAlert THEN acc
    ELSE IF ~(\E i \in 1..Len(entity.informed) : entity.informed[i].routeId = targetRouteId)
    THEN acc
    ELSE IF ~PeriodOk(entity) THEN [acc EXCEPT !.threw = TRUE]
    ELSE LET fullText == HeaderText(entity) \cup entity.desc
             byStop == StopsFrom(entity.informed, 1, stopMapping, <<>>)
             textMatched == findStationsInTextByPattern(fullText, stationPatterns)
             affectedStations == AddMissing(byStop, textMatched, 1)
         IN WithAlert(acc, entity, <<lineId>>, affectedStations, t)

RECURSIVE BaltimoreLoop(_, _, _, _, _, _, _, _)
BaltimoreLoop(acc, entities, i, targetRouteId, stopMapping, stationPatterns, lineId, t) ==
    IF i > Len(entities) THEN acc
    ELSE BaltimoreLoop(
            BaltimoreEntity(acc, entities[i], targetRouteId, stopMapping,
                            stationPatterns, lineId, t),
            entities, i + 1, targetRouteId, stopMapping, stationPatterns, lineId, t)

\* fetchBaltimoreIncidents once fetchMtaMarylandFeed has answered (feed).
\* The loop is not inside a try block: what it throws propagates.
fetchBaltimoreIncidents(feed, systemId, targetRouteId, stopMapping, stationPatterns, lineId, t) ==
    IF ~feed.ok THEN Null
    ELSE LET acc == BaltimoreLoop(Acc0, feed.entity, 1, targetRouteId, stopMapping,
                                  stationPatterns, lineId, t)
         IN IF acc.threw THEN Throw ELSE Data(IncidentData(systemId, acc, t))

fetchBaltimoreMetroIncidents(feed, t) ==
    fetchBaltimoreIncidents(feed, "baltimore-metro", MTA_MARYLAND_METRO_ROUTE,
        BALTIMORE_METRO_STOPS, BALTIMORE_METRO_STATION_PATTERNS, "metro", t)

fetchBaltimoreLightRailIncidents(feed, t) ==
    fetchBaltimoreIncidents(feed, "baltimore-light-rail", MTA_MARYLAND_LIGHT_RAIL_ROUTE,
        BALTIMORE_LIGHT_RAIL_STOPS, BALTIMORE_LIGHT_RAIL_STATION_PATTERNS, "main-line", t)

-----------------------------------------------------------------------------
(* NYC Subway *)

\* rows of NYC_SUBWAY_ROUTE_MAP
NYC_SUBWAY_ROUTE_MAP ==
    ("GS" :> "S-42") @@ ("FS" :> "S-franklin") @@ ("H" :> "S-rockaway")

\* mapNycRouteId; "" stands for null
mapNycRouteId(routeId) ==
    IF routeId = "SI" THEN ""
    ELSE IF routeId \in DOMAIN NYC_SUBWAY_ROUTE_MAP THEN NYC_SUBWAY_ROUTE_MAP[routeId]
    ELSE routeId

\* getStations("nyc-subway"): two active stations that share a
\* normalized name, one active station of its own name, one closed station
NycStations ==
    <<[id |-> "86-st-lex", name |-> <<"B", "-", "a">>, lines |-> <<"4", "5", "6">>,
       status |-> "active"],
      [id |-> "86-st-bway", name |-> <<"b", " ", "a">>, lines |-> <<"1", "S-42">>,
       status |-> "active"],
      [id |-> "astor-pl", name |-> <<"a", "(", "b", ")">>, lines |-> <<"6">>,
       status |-> "active"],
      [id |-> "old-south-ferry", name |-> <<"b">>, lines |-> <<"1">>,
       status |-> "closed"]>>

\* the loop of getNycStationIndex with set(normalized, [entry])
RECURSIVE IndexFromOverwriting(_, _, _)
IndexFromOverwriting(stations, i, index) ==
    IF i > Len(stations) THEN index
    ELSE IF stations[i].status # "active" THEN IndexFromOverwriting(stations, i + 1, index)
    ELSE LET normalized == normalizeStationName(stations[i].name)
             entry == [id |-> stations[i].id, lines |-> stations[i].lines]
         IN IndexFromOverwriting(stations, i + 1,
                [k \in DOMAIN index \cup {normalized} |->
                    IF k = normalized THEN <<entry>> ELSE index[k]])

\* the loop of getNycStationIndex
RECURSIVE IndexFrom(_, _, _)
IndexFrom(stations, i, index) ==
    IF i > Len(stations) THEN index
    ELSE IF stations[i].status # "active" THEN IndexFrom(stations, i + 1, index)
    ELSE LET normalized == normalizeStationName(stations[i].name)
             existing == IF normalized \in DOMAIN index THEN index[normalized] ELSE <<>>
             entry == [id |-> stations[i].id, lines |-> stations[i].lines]
         IN IndexFrom(stations, i + 1,
                [k \in DOMAIN index \cup {normalized} |->
                    IF k = normalized THEN Append(existing, entry) ELSE index[k]])

getNycStationIndex == IndexFrom(NycStations, 1, [k \in {} |-> <<>>])

\* trainno.split("/").map(trim).map(mapNycRouteId).filter(id => id !== null)
OutageLines(trainno) ==
    SelectSeq([i \in 1..Len(trainno) |-> mapNycRouteId(trainno[i])], LAMBDA id : id # "")

\* c.lines.filter(l => outageLines.includes(l)).length
NycOverlap(lines, outageLines) ==
    Len(SelectSeq(lines, LAMBDA l : Includes(outageLines, l)))

\* scored.reduce((a, b) => b.overlap >= a.overlap ? b : a)
RECURSIVE ReduceBestLast(_, _, _)
ReduceBestLast(scored, i, a) ==
    IF i > Len(scored) THEN a
    ELSE ReduceBestLast(scored, i + 1, IF scored[i].overlap >= a.overlap THEN scored[i] ELSE a)

\* scored.reduce((a, b) => b.overlap > a.overlap ? b : a)
RECURSIVE ReduceBest(_, _, _)
ReduceBest(scored, i, a) ==
    IF i > Len(scored) THEN a
    ELSE ReduceBest(scored, i + 1, IF scored[i].overlap > a.overlap THEN scored[i] ELSE a)

\* the station an outage is attributed to, given its candidates
NycMatchedStation(candidates, trainno) ==
    IF Len(candidates) > 1 /\ trainno # <<>>
    THEN LET outageLines == OutageLines(trainno)
             scored == [i \in 1..Len(candidates) |->
                           [id |-> candidates[i].id, lines |-> candidates[i].lines,
                            overlap |-> NycOverlap(candidates[i].lines, outageLines)]]
             best == ReduceBest(scored, 2, scored[1])
         IN IF best.overlap > 0 THEN [id |-> best.id, lines |-> best.lines]
            ELSE candidates[1]
    ELSE candidates[1]

\* one iteration of the loop over the alerts feed
NycAlertEntity(acc, entity, t) ==
    IF acc.threw \/ ~entity.hasAlert THEN acc
    ELSE IF ~(\E i \in 1..Len(entity.informed) : entity.informed[i].agencyId = "MTASBWY")
    THEN acc
    ELSE IF ~PeriodOk(entity) THEN [acc EXCEPT !.threw = TRUE]
    ELSE LET affectedLines ==
                 LinesFrom(entity.informed, 1,
                           [r \in {entity.informed[i].routeId : i \in 1..Len(entity.informed)}
                               |-> mapNycRouteId(r)], <<>>)
         IN [acc EXCEPT !.alerts = Append(@,
                ServiceAlert(entity, mapGtfsEffect(entity.effect), HeaderText(entity),
                             affectedLines, <<>>, PostedAt(entity.start, t),
                             ExpiresAt(entity.end)))]

RECURSIVE NycAlertLoop(_, _, _, _)
NycAlertLoop(acc, entities, i, t) ==
    IF i > Len(entities) THEN acc
    ELSE NycAlertLoop(NycAlertEntity(acc, entities[i], t), entities, i + 1, t)

\* one iteration of the loop over the elevator / escalator outages
NycOutage(acc, outage, stationIndex, t) ==
    IF outage.isupcomingoutage = "Y" THEN acc
    ELSE LET normalizedName == normalizeStationName(outage.station)
         IN IF normalizedName \notin DOMAIN stationIndex THEN acc
            ELSE LET matchedStation ==
                         NycMatchedStation(stationIndex[normalizedName], outage.trainno)
                     unitType == IF outage.equipmenttype = "EL" THEN "elevator"
                                 ELSE "escalator"
                     unit == [unitName |-> <<unitType, outage.equipmentno>>,
                              unitType |-> unitType,
                              location |-> outage.station,
                              symptom |-> "Out of service",
                              outOfServiceSince |-> [iso |-> "now", v |-> t],
                              estimatedReturn |-> [iso |-> "null", v |-> 0],
                              updatedAt |-> [iso |-> "now", v |-> t]]
                 IN [acc EXCEPT
                       !.obs = PushAt(EnsureKey(acc.obs, matchedStation.id),
                                      matchedStation.id, unit),
                       !.elevatorOutages = @ + (IF unitType = "elevator" THEN 1 ELSE 0),
                       !.escalatorOutages = @ + (IF unitType = "elevator" THEN 0 ELSE 1)]

RECURSIVE NycOutageLoop(_, _, _, _, _)
NycOutageLoop(acc, eneData, i, stationIndex, t) ==
    IF i > Len(eneData) THEN acc
    ELSE NycOutageLoop(NycOutage(acc, eneData[i], stationIndex, t),
                       eneData, i + 1, stationIndex, t)

\* fetchNycSubwayIncidents, given the answers of the alerts endpoint and
\* of the elevator / escalator endpoint.  Everything is inside one try
\* block whose catch returns null.
fetchNycSubwayIncidents(alertsResponse, eneResponse, t) ==
    LET feed == fetchGtfsRtFeed(alertsResponse)
        acc1 == IF feed.ok THEN NycAlertLoop(Acc0, feed.entity, 1, t) ELSE Acc0
    IN IF eneResponse.status = "neterr" THEN Null
       ELSE IF acc1.threw THEN Null
       ELSE IF eneResponse.status = "undecodable" THEN Null
       ELSE LET acc2 == IF eneResponse.status = "ok"
                        THEN NycOutageLoop(acc1, eneResponse.body, 1, getNycStationIndex, t)
                        ELSE acc1
            IN Data(IncidentData("nyc-subway", acc2, t))

-----------------------------------------------------------------------------
(* BART *)

\* rows of BART_STATION_CODES
BART_STATION_CODES ==
    ("BAYF" :> "bay-fair") @@ ("EMBR" :> "embarcadero")

\* the loop over the station codes matched in one elevator notice
RECURSIVE BartCodes(_, _, _, _, _)
BartCodes(acc, elev, i, updatedAt, t) ==
    IF i > Len(elev.codes) THEN acc
    ELSE LET stationCode == elev.codes[i]
             stationId == Lookup(BART_STATION_CODES, stationCode)
             unit == [unitName |-> <<stationCode, "Elevator">>,
                      unitType |-> "elevator",
                      location |-> "Station",
                      symptom |-> "Out of service",
                      outOfServiceSince |-> [iso |-> "now", v |-> t],
                      estimatedReturn |-> [iso |-> "null", v |-> 0],
                      updatedAt |-> updatedAt]
         IN BartCodes(
                IF stationId # ""
                THEN [acc EXCEPT !.obs = PushAt(EnsureKey(acc.obs, stationId), stationId, unit),
                                 !.elevatorOutages = @ + 1]
                ELSE acc,
                elev, i + 1, updatedAt, t)

RECURSIVE BartElevLoop(_, _, _, _, _)
BartElevLoop(acc, elevs, i, updatedAt, t) ==
    IF i > Len(elevs) THEN acc
    ELSE BartElevLoop(BartCodes(acc, elevs[i], 1, updatedAt, t), elevs, i + 1, updatedAt, t)

BartAlert(bsa, t) ==
    [id |-> bsa.id,
     type |-> IF bsa.type \in {"DELAY", "delay"} THEN "delay"
              ELSE IF bsa.type \in {"EMERGENCY", "emergency"} THEN "emergency"
              ELSE "advisory",
     title |-> IF bsa.type = "" THEN "Service Advisory" ELSE bsa.type,
     description |-> {}, affectedLines |-> <<>>, affectedStations |-> <<>>,
     postedAt |-> [iso |-> "now", v |-> t], expiresAt |-> [iso |-> "null", v |-> 0]]

\* fetchBartIncidents, given the answers of the two requests; a parsed
\* body is [root, bsa] (root: whether the body has the root object).
\* Everything is inside one try block whose catch returns null.
fetchBartIncidents(bsaResponse, elevResponse, t) ==
    IF bsaResponse.status # "ok" \/ elevResponse.status # "ok" THEN Null
    ELSE IF ~bsaResponse.body.root \/ ~elevResponse.body.root THEN Null
    ELSE LET bsaData == bsaResponse.body
             elevData == elevResponse.body
             alerts == [i \in 1..Len(bsaData.bsa) |-> BartAlert(bsaData.bsa[i], t)]
             acc == BartElevLoop(Acc0, elevData.bsa, 1, [iso |-> "feed", v |-> 0], t)
         IN Data([fetchedAt |-> t,
                  systemId |-> "bart",
                  summary |-> [totalOutages |-> acc.elevatorOutages,
                               elevatorOutages |-> acc.elevatorOutages,
                               escalatorOutages |-> 0,
                               stationsAffected |-> StationsAffected(acc.obs),
                               activeAlerts |-> Len(alerts)],
                  alerts |-> alerts,
                  outagesByStation |-> acc.obs])

-----------------------------------------------------------------------------
(* CTA *)

\* rows of CTA_ROUTE_TO_LINE
CTA_ROUTE_TO_LINE == ("Red" :> "red") @@ ("Blue" :> "blue")

\* rows of CTA_STATION_PATTERNS
CTA_STATION_PATTERNS ==
    <<[pattern |-> "95th/Dan Ryan", stationId |-> "95th-dan-ryan"],
      [pattern |-> "95th", stationId |-> "95th-dan-ryan"],
      [pattern |-> "Clark/Lake", stationId |-> "clark-lake"]>>

\* the threshold in parseInt(alert.SeverityScore) >= 50
SEVERITY_THRESHOLD == 50

\* the decimal digits a score text is made of; any other character is
\* not a digit
DigitValue ==
    ("0" :> 0) @@ ("1" :> 1) @@ ("2" :> 2) @@ ("3" :> 3) @@ ("4" :> 4)
    @@ ("5" :> 5) @@ ("6" :> 6) @@ ("7" :> 7) @@ ("8" :> 8) @@ ("9" :> 9)

\* parseInt on a text of one-character strings without blanks or sign:
\* the value of the longest prefix of digits, NaN when there is none
RECURSIVE ParseDigits(_, _, _)
ParseDigits(str, i, v) ==
    IF i > Len(str) \/ str[i] \notin DOMAIN DigitValue THEN v
    ELSE ParseDigits(str, i + 1, 10 * v + DigitValue[str[i]])

parseInt(str) ==
    IF str = <<>> \/ str[1] \notin DOMAIN DigitValue THEN [nan |-> TRUE, v |-> 0]
    ELSE [nan |-> FALSE, v |-> ParseDigits(str, 1, 0)]

\* the classification with `>` in place of `>=`
CtaAlertTypeAbove(alert) ==
    IF alert.MajorAlert = "1" THEN "emergency"
    ELSE IF /\ alert.SeverityCSS # "planned"
            /\ alert.SeverityCSS # "special-note"
            /\ ~parseInt(alert.SeverityScore).nan
            /\ parseInt(alert.SeverityScore).v > SEVERITY_THRESHOLD
         THEN "delay"
         ELSE "advisory"

\* a comparison with NaN is false
CtaAlertType(alert) ==
    IF alert.MajorAlert = "1" THEN "emergency"
    ELSE IF /\ alert.SeverityCSS # "planned"
            /\ alert.SeverityCSS # "special-note"
            /\ ~parseInt(alert.SeverityScore).nan
            /\ parseInt(alert.SeverityScore).v >= SEVERITY_THRESHOLD
         THEN "delay"
         ELSE "advisory"

\* one iteration of the loop over data.CTAAlerts.Alert
CtaAlert(acc, alert) ==
    LET railServices == SelectSeq(alert.Service, LAMBDA x : x.ServiceType = "R")
        affectedLines ==
            SelectSeq([i \in 1..Len(railServices) |->
                          Lookup(CTA_ROUTE_TO_LINE, railServices[i].ServiceId)],
                      LAMBDA l : l # "")
        fullText == alert.Headline \cup alert.ShortDescription
        affectedStations == findStationsInTextByPattern(fullText, CTA_STATION_PATTERNS)
        equipment == detectEquipmentOutages(fullText, affectedStations, acc.obs,
                                            alert.Headline, alert.EventStart, alert.EventEnd)
    IN IF railServices = <<>> THEN acc
       ELSE [alerts |-> Append(acc.alerts,
                 [id |-> alert.AlertId, type |-> CtaAlertType(alert),
                  title |-> alert.Headline, description |-> alert.ShortDescription,
                  affectedLines |-> affectedLines, affectedStations |-> affectedStations,
                  postedAt |-> alert.EventStart, expiresAt |-> alert.EventEnd]),
             obs |-> equipment.obs,
             elevatorOutages |-> acc.elevatorOutages + equipment.elevatorOutages,
             escalatorOutages |-> acc.escalatorOutages + equipment.escalatorOutages,
             threw |-> FALSE]

RECURSIVE CtaLoop(_, _, _)
CtaLoop(acc, alerts, i) ==
    IF i > Len(alerts) THEN acc
    ELSE CtaLoop(CtaAlert(acc, alerts[i]), alerts, i + 1)

\* fetchCtaIncidents, given the answer of the alerts endpoint; a parsed
\* body is [CTAAlerts, Alert] (CTAAlerts: whether the body has that
\* object).  Everything is inside one try block whose catch returns null.
fetchCtaIncidents(response, t) ==
    IF response.status # "ok" THEN Null
    ELSE IF ~response.body.CTAAlerts THEN Null
    ELSE Data(IncidentData("cta", CtaLoop(Acc0, response.body.Alert, 1), t))

-----------------------------------------------------------------------------
(* Incidents worker: WMATA and Tokyo Metro; batch script for WMATA *)

\* rows of STATION_CODE_MAP
STATION_CODE_MAP == ("A01" :> "metro-center") @@ ("B01" :> "gallery-place")

\* the grouping loop with `break` in place of `continue`
RECURSIVE WmataGroupBreaking(_, _, _)
WmataGroupBreaking(obs, incidents, i) ==
    IF i > Len(incidents) THEN obs
    ELSE LET stationId == Lookup(STATION_CODE_MAP, incidents[i].StationCode)
             unit == [unitName |-> incidents[i].UnitName,
                      unitType |-> IF incidents[i].UnitType = "ELEVATOR" THEN "elevator"
                                   ELSE "escalator",
                      location |-> "", symptom |-> "",
                      outOfServiceSince |-> "", estimatedReturn |-> "", updatedAt |-> ""]
         IN IF stationId = "" THEN obs
            ELSE WmataGroupBreaking(PushAt(EnsureKey(obs, stationId), stationId, unit),
                                    incidents, i + 1)

\* the grouping loop of processIncidents
RECURSIVE WmataGroup(_, _, _)
WmataGroup(obs, incidents, i) ==
    IF i > Len(incidents) THEN obs
    ELSE LET stationId == Lookup(STATION_CODE_MAP, incidents[i].StationCode)
             unit == [unitName |-> incidents[i].UnitName,
                      unitType |-> IF incidents[i].UnitType = "ELEVATOR" THEN "elevator"
                                   ELSE "escalator",
                      location |-> "", symptom |-> "",
                      outOfServiceSince |-> "", estimatedReturn |-> "", updatedAt |-> ""]
         IN WmataGroup(IF stationId = "" THEN obs
                       ELSE PushAt(EnsureKey(obs, stationId), stationId, unit),
                       incidents, i + 1)

\* the counting loop: elevator if unitType === 'elevator', else escalator
WmataElevators(obs) == CountType(obs, "elevator")

WmataEscalators(obs) == SumLens(obs, DOMAIN obs) - CountType(obs, "elevator")

\* processIncidents of the worker (systems/wmata.ts and the earlier
\* single-system worker)
processIncidents(incidents, t) ==
    LET outagesByStation == WmataGroup(NoKeys, incidents, 1)
    IN [fetchedAt |-> t,
        systemId |-> "wmata",
        summary |-> [totalOutages |-> Len(incidents),
                     elevatorOutages |-> WmataElevators(outagesByStation),
                     escalatorOutages |-> WmataEscalators(outagesByStation),
                     stationsAffected |-> StationsAffected(outagesByStation)],
        outagesByStation |-> outagesByStation]

\* main of scripts/fetch-wmata-incidents.js: the object written to
\* data/incidents/wmata.json
wmataScriptMain(incidents, t) ==
    LET outagesByStation == WmataGroup(NoKeys, incidents, 1)
    IN [fetchedAt |-> t,
        systemId |-> "wmata",
        summary |-> [totalOutages |-> Len(incidents),
                     elevatorOutages |-> WmataElevators(outagesByStation),
                     escalatorOutages |-> WmataEscalators(outagesByStation),
                     stationsAffected |-> StationsAffected(outagesByStation)],
        outagesByStation |-> outagesByStation]

\* rows of RAILWAY_LINE_MAP
RAILWAY_LINE_MAP == ("Ginza" :> "ginza") @@ ("Tozai" :> "tozai")

\* mapAlertType of the Tokyo Metro worker; status is the set of keywords
\* found in the ja / en status text
mapAlertType(status) ==
    IF "suspend" \in status THEN "emergency"
    ELSE IF "delay" \in status THEN "delay"
    ELSE "advisory"

RECURSIVE TokyoAlerts(_, _, _, _)
TokyoAlerts(alerts, entries, i, t) ==
    IF i > Len(entries) THEN alerts
    ELSE LET lineId == Lookup(RAILWAY_LINE_MAP, entries[i].railway)
         IN TokyoAlerts(
                IF ~entries[i].hasStatus \/ lineId = "" THEN alerts
                ELSE Append(alerts,
                        [id |-> <<"tokyo-metro", lineId, t>>,
                         type |-> mapAlertType(entries[i].status),
                         title |-> "Service disruption", description |-> "",
                         affectedLines |-> <<lineId>>, affectedStations |-> <<>>,
                         postedAt |-> [iso |-> "now", v |-> t],
                         expiresAt |-> [iso |-> "null", v |-> 0]]),
                entries, i + 1, t)

\* processTrainInfo of the Tokyo Metro worker
processTrainInfo(entries, t) ==
    LET alerts == TokyoAlerts(<<>>, entries, 1, t)
    IN [fetchedAt |-> t,
        systemId |-> "tokyo-metro",
        summary |-> [totalOutages |-> 0, elevatorOutages |-> 0, escalatorOutages |-> 0,
                     stationsAffected |-> 0, activeAlerts |-> Len(alerts)],
        alerts |-> alerts,
        outagesByStation |-> NoKeys]

-----------------------------------------------------------------------------
(* The incidents worker: its fetch and scheduled handlers over the KV store *)

MaxRequests == 2    \* worker invocations per behaviour

\* the keys of INCIDENTS_KV, in the order of the bulk refresh
WorkerSystems == {"wmata", "tokyo-metro"}

\* concurrent invocations of the worker
Handlers == {1, 2}

Idle == [pc |-> "idle"]

NoValue == [has |-> FALSE]

Stored(data) == [has |-> TRUE, data |-> data]

Fulfilled(value) == [status |-> "fulfilled", value |-> value]

Rejected(message) == [status |-> "rejected", message |-> message]

\* fetchWMATAIncidents, given the answer of the WMATA API; the parsed body
\* is [has, ElevatorIncidents] (has: whether the property is present)
fetchWMATAIncidents(answer) ==
    IF answer.status = "non2xx" THEN Rejected("WMATA API error")
    ELSE IF answer.status = "neterr" THEN Rejected("fetch failed")
    ELSE IF answer.status = "undecodable" THEN Rejected("invalid JSON")
    ELSE Fulfilled(IF answer.body.has THEN answer.body.ElevatorIncidents ELSE <<>>)

\* fetchODPTTrainInfo, given the answer of the ODPT API
fetchODPTTrainInfo(answer) ==
    IF answer.status = "non2xx" THEN Rejected("ODPT API error")
    ELSE IF answer.status = "neterr" THEN Rejected("fetch failed")
    ELSE IF answer.status = "undecodable" THEN Rejected("invalid JSON")
    ELSE Fulfilled(answer.body)

\* refreshWmata up to its kv.put: the data to store, or the rejection
refreshWmata(answer, t) ==
    LET incidents == fetchWMATAIncidents(answer)
    IN IF incidents.status = "rejected" THEN incidents
       ELSE Fulfilled(processIncidents(incidents.value, t))

\* refreshTokyoMetro up to its kv.put
refreshTokyoMetro(answer, t) ==
    LET entries == fetchODPTTrainInfo(answer)
    IN IF entries.status = "rejected" THEN entries
       ELSE Fulfilled(processTrainInfo(entries.value, t))

\* a refresh that stores its data whatever the upstream answered
refreshAlwaysStores(system, answer, t) ==
    Fulfilled(IF system = "wmata" THEN processIncidents(<<>>, t)
              ELSE processTrainInfo(<<>>, t))

refresh(system, answer, t) ==
    IF system = "wmata" THEN refreshWmata(answer, t) ELSE refreshTokyoMetro(answer, t)

\* what the two upstream APIs may answer
WorkerAnswers(system) ==
    IF system = "wmata"
    THEN {Ok([has |-> TRUE,
              ElevatorIncidents |-> <<[UnitName |-> "u", UnitType |-> "ELEVATOR",
                                       StationCode |-> "A01"]>>]),
          Ok([has |-> FALSE, ElevatorIncidents |-> <<>>]),
          Failed("non2xx"), Failed("neterr")}
    ELSE {Ok(<<[railway |-> "Ginza", hasStatus |-> TRUE, status |-> {"delay"}]>>),
          Failed("non2xx"), Failed("undecodable")}

Fetching == [pc |-> "fetching"]

Settled(answer, outcome) == [pc |-> "settled", answer |-> answer, outcome |-> outcome]

NoResponse == [route |-> "none"]

\* the worker after deployment: nothing stored, nothing running
WorkerInit ==
    /\ kv = [s \in WorkerSystems |-> NoValue]
    /\ handlers = [h \in Handlers |-> Idle]
    /\ resp = NoResponse
    /\ served = 0

\* the slot a new invocation runs in
FreeHandler(h) ==
    /\ handlers[h].pc = "idle"
    /\ \A g \in Handlers : g < h => handlers[g].pc # "idle"
    /\ served < MaxRequests
    /\ served' = served + 1

\* an invocation that starts the refreshes of `systems` and awaits them
Awaiting(route, systems) ==
    [pc |-> "awaiting", route |-> route, tasks |-> [s \in systems |-> Fetching]]

\* GET /incidents/wmata and GET /incidents/tokyo-metro
GetIncidents(h, system) ==
    /\ FreeHandler(h)
    /\ resp' = IF kv[system].has
               THEN [route |-> "GET /incidents/:systemId", key |-> system,
                     status |-> 200, body |-> kv[system].data]
               ELSE [route |-> "GET /incidents/:systemId", key |-> system,
                     status |-> 404, body |-> "No incident data available"]
    /\ UNCHANGED <<kv, handlers, siteVars, inp, out>>

\* the station ids of the path parameter
StationIds == {"metro-center", "gallery-place"}

\* GET /incidents/wmata/:stationId
GetStationIncidents(h, stationId) ==
    /\ FreeHandler(h)
    /\ resp' = [route |-> "GET /incidents/wmata/:stationId", key |-> stationId,
                status |-> 200,
                body |-> IF ~kv["wmata"].has THEN <<>>
                         ELSE IF stationId \in DOMAIN kv["wmata"].data.outagesByStation
                         THEN kv["wmata"].data.outagesByStation[stationId]
                         ELSE <<>>]
    /\ UNCHANGED <<kv, handlers, siteVars, inp, out>>

\* POST /refresh, up to `await Promise.allSettled([...])`: both refreshes
\* have been called and each has issued its upstream request
PostRefresh(h) ==
    /\ FreeHandler(h)
    /\ handlers' = [handlers EXCEPT ![h] = Awaiting("POST /refresh", WorkerSystems)]
    /\ UNCHANGED <<kv, resp, siteVars, inp, out>>

\* the scheduled handler, up to its `await Promise.allSettled([...])`
Scheduled(h) ==
    /\ FreeHandler(h)
    /\ handlers' = [handlers EXCEPT ![h] = Awaiting("scheduled", WorkerSystems)]
    /\ UNCHANGED <<kv, resp, siteVars, inp, out>>

\* POST /refresh/:systemId, up to the await of the refresh; an unknown
\* systemId is answered at once
PostRefreshSystem(h, systemId) ==
    /\ FreeHandler(h)
    /\ IF systemId \in WorkerSystems
       THEN /\ handlers' = [handlers EXCEPT ![h] =
                               Awaiting("POST /refresh/:systemId", {systemId})]
            /\ resp' = resp
       ELSE /\ resp' = [route |-> "POST /refresh/:systemId", key |-> systemId,
                        status |-> 404, body |-> [error |-> "Unknown system"],
                        answers |-> <<>>]
            /\ handlers' = handlers
    /\ UNCHANGED <<kv, siteVars, inp, out>>

\* the rest of refreshWmata / refreshTokyoMetro once upstream has
\* answered: process, kv.put, return; or the rejection of the fetch
RefreshSettles(h, system) ==
    /\ handlers[h].pc = "awaiting"
    /\ system \in DOMAIN handlers[h].tasks
    /\ handlers[h].tasks[system].pc = "fetching"
    /\ \E answer \in WorkerAnswers(system) :
          LET outcome == refresh(system, answer, now)
          IN /\ kv' = IF outcome.status = "fulfilled"
                      THEN [kv EXCEPT ![system] = Stored(outcome.value)]
                      ELSE kv
             /\ handlers' = [handlers EXCEPT ![h].tasks[system] = Settled(answer, outcome)]
    /\ UNCHANGED <<resp, served, siteVars, inp, out>>

\* summary[system] of the bulk refresh
SystemReport(outcome) ==
    IF outcome.status = "fulfilled"
    THEN [success |-> TRUE, summary |-> outcome.value.summary]
    ELSE [success |-> FALSE, error |-> outcome.message]

\* results.every(r => r.status === 'fulfilled') replaced by some
AllSucceededSome(tasks) ==
    \E s \in DOMAIN tasks : tasks[s].outcome.status = "fulfilled"

\* results.every(r => r.status === 'fulfilled')
AllSucceeded(tasks) ==
    \A s \in DOMAIN tasks : tasks[s].outcome.status = "fulfilled"

\* a single refresh that reports success whatever happened
SystemResponseAlwaysOk(systemId, outcome) ==
    [status |-> 200,
     body |-> [success |-> TRUE,
               summary |-> IF outcome.status = "fulfilled" THEN outcome.value.summary
                           ELSE [totalOutages |-> 0]]]

\* the response of POST /refresh/:systemId after the await
SystemResponse(systemId, outcome) ==
    IF outcome.status = "fulfilled"
    THEN [status |-> 200, body |-> [success |-> TRUE, summary |-> outcome.value.summary]]
    ELSE [status |-> 500, body |-> [error |-> outcome.message]]

\* the continuation of a handler after its await: every refresh it
\* started has settled.  resp.answers keeps what upstream had answered.
Respond(h) ==
    LET k == handlers[h]
        answers == [s \in DOMAIN k.tasks |-> k.tasks[s].answer]
    IN /\ k.pc = "awaiting"
       /\ \A s \in DOMAIN k.tasks : k.tasks[s].pc = "settled"
       /\ handlers' = [handlers EXCEPT ![h] = Idle]
       /\ resp' =
            IF k.route = "POST /refresh"
            THEN [route |-> k.route, key |-> "",
                  status |-> IF AllSucceeded(k.tasks) THEN 200 ELSE 207,
                  body |-> [success |-> AllSucceeded(k.tasks),
                            systems |-> [s \in DOMAIN k.tasks |->
                                            SystemReport(k.tasks[s].outcome)]],
                  answers |-> answers]
            ELSE IF k.route = "scheduled"
            THEN [route |-> k.route, key |-> "", status |-> 0,
                  body |-> {s \in DOMAIN k.tasks : k.tasks[s].outcome.status = "rejected"},
                  answers |-> answers]
            ELSE LET systemId == CHOOSE s \in DOMAIN k.tasks : TRUE
                     r == SystemResponse(systemId, k.tasks[systemId].outcome)
                 IN [route |-> k.route, key |-> systemId, status |-> r.status,
                     body |-> r.body, answers |-> answers]
       /\ UNCHANGED <<kv, served, siteVars, inp, out>>

-----------------------------------------------------------------------------
(* The incident aggregator: getIncidents and its two caches *)

CACHE_TTL == 6                      \* 5 * 60 * 1000 ms

MTA_MARYLAND_FEED_CACHE_TTL == 6    \* 5 * 60 * 1000 ms

supportedSystems ==
    {"wmata", "bart", "sound-transit", "nyc-subway", "baltimore-metro",
     "baltimore-light-rail", "tokyo-metro", "cta"}

\* the systemId arguments callers pass; "mbta" has no adapter
SystemIds == supportedSystems \cup {"mbta"}

\* concurrent requests of the server process that call getIncidents
Callers == {1, 2}

NoEntry == [has |-> FALSE]

Entry(data, t) == [has |-> TRUE, data |-> data, fetchedAt |-> t]

\* cached && Date.now() - cached.fetchedAt > TTL
CacheFreshReversed(entry, t, ttl) == entry.has /\ t - entry.fetchedAt > ttl

\* cached && Date.now() - cached.fetchedAt < TTL
CacheFresh(entry, t, ttl) == entry.has /\ t - entry.fetchedAt < ttl

\* supportedSystems.includes(systemId) always true
IsSupportedAlways(systemId) == TRUE

\* supportedSystems.includes(systemId)
IsSupported(systemId) == systemId \in supportedSystems

\* incidentCache.set that keeps the station outages of the previous entry
CacheSetMerged(cache, systemId, data, t) ==
    [cache EXCEPT ![systemId] =
        Entry(IF cache[systemId].has
              THEN [data EXCEPT !.outagesByStation =
                                    data.outagesByStation @@ cache[systemId].data.outagesByStation]
              ELSE data, t)]

\* incidentCache.set(systemId, { data, fetchedAt: Date.now() })
\* CacheSet skipping an IncidentData whose counts are all zero
CacheSetUnlessEmpty(cache, systemId, data, t) ==
    IF \A f \in DOMAIN data.summary : data.summary[f] = 0 THEN cache
    ELSE [cache EXCEPT ![systemId] = Entry(data, t)]

CacheSet(cache, systemId, data, t) == [cache EXCEPT ![systemId] = Entry(data, t)]

\* fetchMtaMarylandFeed.  fresh is the outcome of the cache test made when
\* the function was entered; response is the answer of the alerts endpoint
\* when the test failed.  Returns the feed and the new value of the cache.
fetchMtaMarylandFeed(cache, fresh, response, t) ==
    IF fresh THEN [feed |-> cache.data, cache |-> cache]
    ELSE IF response.status = "ok"
    THEN [feed |-> fetchGtfsRtFeed(response),
          cache |-> Entry(fetchGtfsRtFeed(response), t)]
    ELSE [feed |-> fetchGtfsRtFeed(response), cache |-> cache]

\* fetchWmataIncidents: the worker's JSON is returned as it is
fetchWmataIncidents(urlSet, responses) ==
    IF ~urlSet THEN Null
    ELSE IF responses[1].status = "ok" THEN Data(responses[1].body)
    ELSE Null

\* fetchTokyoMetroIncidents: the worker's JSON is returned as it is
fetchTokyoMetroIncidents(urlSet, responses) ==
    IF ~urlSet THEN Null
    ELSE IF responses[1].status = "ok" THEN Data(responses[1].body)
    ELSE Null

\* number of network requests the pipeline of systemId issues
Requests(systemId, urlSet, feedFresh) ==
    IF systemId \in {"bart", "nyc-subway"} THEN 2
    ELSE IF systemId \in {"sound-transit", "cta"} THEN 1
    ELSE IF systemId \in {"baltimore-metro", "baltimore-light-rail"}
    THEN (IF feedFresh THEN 0 ELSE 1)
    ELSE IF systemId \in {"wmata", "tokyo-metro"} THEN (IF urlSet THEN 1 ELSE 0)
    ELSE 0

\* the if / else-if chain of getIncidents; feed is the result of
\* fetchMtaMarylandFeed for the two Baltimore systems
Dispatch(systemId, responses, feed, urlSet, t) ==
    IF systemId = "bart" THEN fetchBartIncidents(responses[1], responses[2], t)
    ELSE IF systemId = "wmata" THEN fetchWmataIncidents(urlSet, responses)
    ELSE IF systemId = "sound-transit" THEN fetchSoundTransitIncidents(responses[1], t)
    ELSE IF systemId = "nyc-subway" THEN fetchNycSubwayIncidents(responses[1], responses[2], t)
    ELSE IF systemId = "baltimore-metro" THEN fetchBaltimoreMetroIncidents(feed, t)
    ELSE IF systemId = "baltimore-light-rail" THEN fetchBaltimoreLightRailIncidents(feed, t)
    ELSE IF systemId = "tokyo-metro" THEN fetchTokyoMetroIncidents(urlSet, responses)
    ELSE IF systemId = "cta" THEN fetchCtaIncidents(responses[1], t)
    ELSE Null

\* what the upstream endpoints of systemId may answer to one pipeline run
GoodAlert(informed) == GtfsEntity(TRUE, {"elevator", "lexington market", "westlake"}, {},
                                  informed, 1700)

BadAlert(informed) == GtfsEntity(TRUE, {}, {}, informed, 9000000)

GtfsUpstream(informed) ==
    {<<r>> : r \in Failures \cup {Ok(<<GoodAlert(informed)>>),
                                 Ok(<<BadAlert(informed)>>)}}

WorkerUpstream(bodies) == {<<r>> : r \in Failures \cup {Ok(b) : b \in bodies}}

Upstream(systemId) ==
    IF systemId = "bart"
    THEN {<<Failed("non2xx"), Ok([root |-> TRUE, bsa |-> <<>>])>>,
          <<Ok([root |-> TRUE, bsa |-> <<>>]), Failed("neterr")>>,
          <<Ok([root |-> TRUE, bsa |-> <<[id |-> "1", type |-> "DELAY"]>>]),
            Ok([root |-> TRUE, bsa |-> <<[codes |-> <<"EMBR">>]>>])>>}
    ELSE IF systemId = "sound-transit" THEN GtfsUpstream(<<Informed("1LINE", "", "")>>)
    ELSE IF systemId = "baltimore-metro"
    THEN GtfsUpstream(<<Informed("11682", "", ""), Informed("11693", "", "")>>)
    ELSE IF systemId = "baltimore-light-rail"
    THEN GtfsUpstream(<<Informed("11682", "", ""), Informed("11693", "", "")>>)
    ELSE IF systemId = "nyc-subway"
    THEN {<<Failed("non2xx"), Failed("non2xx")>>,
          <<Ok(<<>>), Failed("neterr")>>,
          <<Ok(<<GtfsEntity(TRUE, {}, {}, <<Informed("GS", "", "MTASBWY")>>, 0)>>),
            Ok(<<[station |-> <<"a">>, trainno |-> <<"6">>, equipmenttype |-> "EL",
                  equipmentno |-> "1", isupcomingoutage |-> "N"]>>)>>}
    ELSE IF systemId = "cta"
    THEN {<<r>> : r \in Failures \cup
            {Ok([CTAAlerts |-> FALSE, Alert |-> <<>>]),
             Ok([CTAAlerts |-> TRUE, Alert |-> <<
                 [AlertId |-> "1", Headline |-> {"elevator", "95th/Dan Ryan", "95th"},
                  ShortDescription |-> {"out of service"}, SeverityScore |-> <<"6", "0">>,
                  SeverityCSS |-> "normal", MajorAlert |-> "0",
                  EventStart |-> "2024-01-01", EventEnd |-> "null",
                  Service |-> <<[ServiceType |-> "R", ServiceId |-> "Red"]>>]>>])}}
    ELSE IF systemId = "wmata"
    THEN WorkerUpstream({processIncidents(<<>>, 0),
                         processIncidents(<<[UnitName |-> "u", UnitType |-> "ELEVATOR",
                                             StationCode |-> "A01"]>>, 0)})
    ELSE IF systemId = "tokyo-metro"
    THEN WorkerUpstream({processTrainInfo(<<>>, 0),
                         processTrainInfo(<<[railway |-> "Ginza", hasStatus |-> TRUE,
                                             status |-> {"delay"}]>>, 0)})
    ELSE {}

\* the answers drawn when the behaviour observes a single system: every
\* combination of a failure, an empty list and a list of one per request
AllUpstream(systemId) ==
    IF systemId = "bart"
    THEN {<<a, b>> :
            a \in Failures \cup {Ok([root |-> TRUE, bsa |-> <<>>]),
                                 Ok([root |-> TRUE,
                                     bsa |-> <<[id |-> "1", type |-> "DELAY"]>>])},
            b \in Failures \cup {Ok([root |-> TRUE, bsa |-> <<>>]),
                                 Ok([root |-> TRUE, bsa |-> <<[codes |-> <<"EMBR">>]>>])}}
    ELSE IF systemId = "nyc-subway"
    THEN {<<a, b>> :
            a \in Failures \cup
                  {Ok(<<>>),
                   Ok(<<GtfsEntity(TRUE, {}, {}, <<Informed("GS", "", "MTASBWY")>>, 0)>>)},
            b \in Failures \cup
                  {Ok(<<>>),
                   Ok(<<[station |-> <<"a">>, trainno |-> <<"6">>, equipmenttype |-> "EL",
                         equipmentno |-> "1", isupcomingoutage |-> "N"]>>)}}
    ELSE IF systemId = "cta"
    THEN Upstream(systemId) \cup {<<Ok([CTAAlerts |-> TRUE, Alert |-> <<>>])>>}
    ELSE IF systemId \in {"sound-transit", "baltimore-metro", "baltimore-light-rail"}
    THEN Upstream(systemId) \cup {<<Ok(<<>>)>>}
    ELSE Upstream(systemId)

\* whether the behaviour observes one system and records, in out, the
\* answers consumed by the call that returned last
Observed == inp.fn = "getIncidents, observed"

\* the two systems read from the MTA Maryland feed
BaltimoreSystems == {"baltimore-metro", "baltimore-light-rail"}

MaxFeedTime == 4    \* steps of the clock where the feed's age is followed
MaxFeedCalls == 3   \* getIncidents calls started in such a behaviour

\* whether the behaviour follows the age of the shared feed: out then
\* holds, for each Baltimore system, the time at which the feed behind its
\* cache entry was fetched, and for the call that returned data last its
\* system, the time of the call and the fetch time of the feed behind
\* the data it returned
FeedFollowed == inp.fn = "getIncidents, feed followed"

NoFeed == [has |-> FALSE]

FeedAt(t) == [has |-> TRUE, fetchedAt |-> t]

FeedLog(behind, returned) == [done |-> returned.has, behind |-> behind, returned |-> returned]

\* units of 50 s by which the clock advances in one step
Step == IF FeedFollowed THEN 2 ELSE 3

Horizon == IF FeedFollowed THEN MaxFeedTime * Step ELSE MaxTime * Step

CallBudget == IF FeedFollowed THEN MaxFeedCalls ELSE MaxCalls

Answers(systemId) == IF Observed THEN AllUpstream(systemId) ELSE Upstream(systemId)

\* whether, in this behaviour, the upstream endpoints accept requests and
\* never answer them
Silent == "silent" \in DOMAIN inp /\ inp.silent

NoCall == [has |-> FALSE]

Pending == [done |-> FALSE]

Result(v) == [done |-> TRUE, val |-> v]

NoInput == [fn |-> "none"]

\* the state of the server process before any request
AggInit(urlSet) ==
    /\ now = 0
    /\ incidentCache = [s \in SystemIds |-> NoEntry]
    /\ mtaMarylandFeedCache = NoEntry
    /\ workerUrlSet = urlSet
    /\ calls = [c \in Callers |-> Idle]
    /\ lastCall = [s \in SystemIds |-> NoCall]
    /\ started = 0
    /\ WorkerInit
    /\ nycStationIndex = NoEntry
    /\ builds = 0

AggQuiet == AggInit(FALSE)

-----------------------------------------------------------------------------
(* getNycStationIndex as a lazily initialised singleton *)

MaxListed == 3      \* longest station list of stations.json enumerated

\* station lists of stations.json: each station id once
StationFiles ==
    {l \in SeqsUpTo(Range(NycStations), MaxListed) :
        \A i, j \in 1..Len(l) : i # j => l[i] # l[j]}

\* the process before any request, with the station file drawn
InitIndex ==
    /\ AggQuiet
    /\ inp \in [fn : {"getNycStationIndex"}, stations : StationFiles]
    /\ out = Pending

\* getNycStationIndex up to `await getStations("nyc-subway")`, or to its
\* return when nycStationIndex is set
GetNycStationIndex(c) ==
    /\ calls[c].pc # "loading"
    /\ started < MaxCalls
    /\ started' = started + 1
    /\ calls' = [calls EXCEPT ![c] =
                   IF nycStationIndex.has
                   THEN [pc |-> "returned", index |-> nycStationIndex]
                   ELSE [pc |-> "loading"]]
    /\ UNCHANGED <<now, incidentCache, mtaMarylandFeedCache, workerUrlSet, lastCall,
                   idxVars, wrkVars, inp, out>>

\* the rest of getNycStationIndex after the await: new Map(), the loop
\* (no await inside), return.  data is the Map's content, serial tells
\* the Map objects apart
GetNycStationIndexResume(c) ==
    /\ calls[c].pc = "loading"
    /\ builds' = builds + 1
    /\ nycStationIndex' = [has |-> TRUE, serial |-> builds + 1,
                           data |-> IndexFrom(inp.stations, 1, [k \in {} |-> <<>>])]
    /\ calls' = [calls EXCEPT ![c] = [pc |-> "returned", index |-> nycStationIndex']]
    /\ UNCHANGED <<now, incidentCache, mtaMarylandFeedCache, workerUrlSet, lastCall,
                   started, wrkVars, inp, out>>

NextIndex ==
    \/ \E c \in Callers : GetNycStationIndex(c)
    \/ \E c \in Callers : GetNycStationIndexResume(c)

SpecIndex == InitIndex /\ [][NextIndex]_vars

\* the entries of station s under key k of the index
EntriesOf(index, k, s) ==
    {i \in 1..Len(index[k]) : index[k][i].id = s.id}

\* C22: the NYC station index maps each normalized name to all active
\* stations with that name: every active station has exactly one entry,
\* with its id and lines, under normalizeStationName(name) and none under
\* another key; stations sharing a name are all kept; a non-active
\* station has no entry.
C22_IndexHoldsAllActiveStations ==
    nycStationIndex.has
    => LET index == nycStationIndex.data
       IN /\ \A n \in 1..Len(inp.stations) :
                LET s == inp.stations[n]
                    key == normalizeStationName(s.name)
                IN IF s.status = "active"
                   THEN /\ key \in DOMAIN index
                        /\ Cardinality(EntriesOf(index, key, s)) = 1
                        /\ \A i \in EntriesOf(index, key, s) : index[key][i].lines = s.lines
                        /\ \A k \in DOMAIN index \ {key} : EntriesOf(index, k, s) = {}
                   ELSE \A k \in DOMAIN index : EntriesOf(index, k, s) = {}
          /\ \A k \in DOMAIN index :
                Len(index[k]) =
                  Cardinality({n \in 1..Len(inp.stations) :
                                 /\ inp.stations[n].status = "active"
                                 /\ normalizeStationName(inp.stations[n].name) = k})

\* an index has been built from a list in which two active stations share
\* a normalized name and one station is closed
C22_Witness ==
    /\ nycStationIndex.has
    /\ Len(inp.stations) = 3
    /\ \E k \in DOMAIN nycStationIndex.data : Len(nycStationIndex.data[k]) = 2
    /\ \E n \in 1..3 : inp.stations[n].status # "active"

\* C23 as stated: over any interleaving of getNycStationIndex calls the
\* index is constructed at most once, and every caller receives that one
\* fully populated Map.
C23_IndexBuiltOnce ==
    /\ builds <= 1
    /\ \A c \in Callers :
          calls[c].pc = "returned"
          => /\ calls[c].index.serial = 1
             /\ calls[c].index.data = IndexFrom(inp.stations, 1, [k \in {} |-> <<>>])

\* the worker alone: the site's server process stays quiet
InitWorker ==
    /\ AggQuiet
    /\ inp = [fn |-> "worker"]
    /\ out = Pending

NextWorker ==
    \/ \E h \in Handlers, system \in WorkerSystems : GetIncidents(h, system)
    \/ \E h \in Handlers, stationId \in StationIds : GetStationIncidents(h, stationId)
    \/ \E h \in Handlers : PostRefresh(h)
    \/ \E h \in Handlers : Scheduled(h)
    \/ \E h \in Handlers, systemId \in WorkerSystems \cup {"bart"} :
          PostRefreshSystem(h, systemId)
    \/ \E h \in Handlers, system \in WorkerSystems : RefreshSettles(h, system)
    \/ \E h \in Handlers : Respond(h)

SpecWorker == InitWorker /\ [][NextWorker]_vars

-----------------------------------------------------------------------------
(* Properties of the worker *)

BulkRoutes == {"POST /refresh", "scheduled"}

\* the refresh of `system` started by handler h settles in this step
SettlesNow(h, system) ==
    /\ handlers[h].pc = "awaiting"
    /\ system \in DOMAIN handlers[h].tasks
    /\ handlers[h].tasks[system].pc = "fetching"
    /\ handlers'[h].pc = "awaiting"
    /\ handlers'[h].tasks[system].pc = "settled"

\* C29: a worker refresh that fails leaves the stored state unchanged: on
\* a non-2xx upstream answer (or any other failure of the fetch) the
\* refresh is rejected and, in the step in which it settles, the KV values
\* under its own key and under the other system's key are what they were;
\* and a KV value is replaced only by the completely processed
\* IncidentData of a refresh of that system that succeeded.
C29_FailedRefreshKeepsKv ==
    [][/\ \A h \in Handlers, system \in WorkerSystems :
             SettlesNow(h, system)
             => LET task == handlers'[h].tasks[system]
                IN /\ task.answer.status # "ok" => task.outcome.status = "rejected"
                   /\ task.outcome.status = "rejected" => kv' = kv
       /\ \A s \in WorkerSystems :
             kv'[s] # kv[s]
             => \E h \in Handlers :
                   /\ SettlesNow(h, s)
                   /\ handlers'[h].tasks[s].answer.status = "ok"
                   /\ handlers'[h].tasks[s].outcome.status = "fulfilled"
                   /\ kv'[s] = Stored(handlers'[h].tasks[s].outcome.value)
                   /\ {"fetchedAt", "systemId", "summary", "outagesByStation"}
                          \subseteq DOMAIN kv'[s].data
                   /\ kv'[s].data.systemId = s
                   /\ \A o \in WorkerSystems \ {s} : kv'[o] = kv[o]]_vars

\* a refresh of WMATA has failed on a non-2xx answer while both keys held
\* the data of the refresh served before it
C29_Witness ==
    \E h \in Handlers :
        /\ handlers[h].pc = "awaiting"
        /\ handlers[h].route = "POST /refresh/:systemId"
        /\ "wmata" \in DOMAIN handlers[h].tasks
        /\ handlers[h].tasks["wmata"].pc = "settled"
        /\ handlers[h].tasks["wmata"].answer.status = "non2xx"
        /\ handlers[h].tasks["wmata"].outcome.status = "rejected"
        /\ \A g \in Handlers \ {h} : handlers[g].pc = "idle"
        /\ resp.route = "POST /refresh"
        /\ kv["wmata"].has
        /\ kv["tokyo-metro"].has

\* C14: the bulk refresh (POST /refresh and the scheduled handler) has
\* every system's refresh in flight from its start and answers only when
\* all have settled; the report of each system depends on that system's
\* upstream answer alone (success with its summary, or failure with an
\* error message); a refresh that succeeds writes its KV key whatever the
\* other does, one that fails changes no key; and the aggregate flag is
\* true with HTTP 200 iff every system succeeded, false with 207 otherwise.
C14_BulkRefreshSettlesAll ==
    /\ [](\A h \in Handlers :
            (handlers[h].pc = "awaiting" /\ handlers[h].route \in BulkRoutes)
            => DOMAIN handlers[h].tasks = WorkerSystems)
    /\ [](resp.route = "POST /refresh"
          => /\ DOMAIN resp.body.systems = WorkerSystems
             /\ \A s \in WorkerSystems :
                   IF resp.answers[s].status = "ok"
                   THEN resp.body.systems[s] =
                          [success |-> TRUE,
                           summary |-> refresh(s, resp.answers[s], 0).value.summary]
                   ELSE /\ resp.body.systems[s].success = FALSE
                        /\ resp.body.systems[s].error \in
                             {"WMATA API error", "ODPT API error", "fetch failed",
                              "invalid JSON"}
             /\ resp.body.success = (\A s \in WorkerSystems : resp.answers[s].status = "ok")
             /\ resp.status = IF resp.body.success THEN 200 ELSE 207)
    /\ [](resp.route = "scheduled"
          => resp.body = {s \in WorkerSystems : resp.answers[s].status # "ok"})
    /\ [][\A h \in Handlers :
            /\ (handlers[h].pc = "idle" /\ handlers'[h].pc = "awaiting"
                /\ handlers'[h].route \in BulkRoutes)
               => \A s \in WorkerSystems : handlers'[h].tasks[s].pc = "fetching"
            /\ (handlers[h].pc = "awaiting" /\ handlers'[h].pc = "idle")
               => \A s \in DOMAIN handlers[h].tasks : handlers[h].tasks[s].pc = "settled"
            /\ \A s \in WorkerSystems :
                  SettlesNow(h, s)
                  => IF handlers'[h].tasks[s].answer.status = "ok"
                     THEN /\ kv'[s] = Stored(handlers'[h].tasks[s].outcome.value)
                          /\ \A o \in WorkerSystems \ {s} : kv'[o] = kv[o]
                     ELSE kv' = kv]_vars

\* this step is a POST /refresh/:systemId request arriving for systemId
SingleRefreshArrives(systemId) ==
    /\ served' = served + 1
    /\ \/ \E h \in Handlers : /\ handlers[h].pc = "idle"
                               /\ handlers'[h].pc = "awaiting"
                               /\ handlers'[h].route = "POST /refresh/:systemId"
                               /\ DOMAIN handlers'[h].tasks = {systemId}
       \/ /\ handlers' = handlers
          /\ resp'.route = "POST /refresh/:systemId"
          /\ resp'.key = systemId

\* C19: POST /refresh/:systemId for wmata or tokyo-metro always issues
\* the upstream request, whatever the KV holds, and answers 200 with
\* success and the fresh summary; when the refresh throws it answers 500
\* with the error message; for any other systemId it answers 404 at once,
\* with no upstream request and no KV write.
C19_SingleRefresh ==
    /\ [](resp.route = "POST /refresh/:systemId"
          => IF resp.key \in WorkerSystems
             THEN /\ DOMAIN resp.answers = {resp.key}
                  /\ IF resp.answers[resp.key].status = "ok"
                     THEN /\ resp.status = 200
                          /\ resp.body =
                               [success |-> TRUE,
                                summary |-> refresh(resp.key, resp.answers[resp.key],
                                                    0).value.summary]
                     ELSE /\ resp.status = 500
                          /\ resp.body.error \in
                               {"WMATA API error", "ODPT API error", "fetch failed",
                                "invalid JSON"}
             ELSE /\ resp.status = 404
                  /\ resp.answers = <<>>)
    /\ [][\A systemId \in WorkerSystems \cup {"bart"} :
            SingleRefreshArrives(systemId)
            => IF systemId \in WorkerSystems
               THEN /\ \E h \in Handlers :
                          /\ handlers[h].pc = "idle"
                          /\ handlers'[h].pc = "awaiting"
                          /\ handlers'[h].tasks[systemId].pc = "fetching"
                    /\ resp' = resp
               ELSE /\ kv' = kv
                    /\ handlers' = handlers
                    /\ resp'.status = 404]_vars

\* a single refresh of a system whose data is already stored has gone
\* upstream, failed and answered 500
C19_Witness ==
    /\ resp.route = "POST /refresh/:systemId"
    /\ resp.key \in WorkerSystems
    /\ resp.status = 500
    /\ kv[resp.key].has

\* a bulk refresh in which WMATA failed and Tokyo Metro succeeded has
\* answered 207, with the earlier WMATA data still stored
C14_Witness ==
    /\ resp.route = "POST /refresh"
    /\ resp.status = 207
    /\ resp.answers["wmata"].status = "non2xx"
    /\ resp.body.systems["tokyo-metro"].success
    /\ kv["wmata"].has
    /\ kv["tokyo-metro"].has

\* the systemIds requested in one behaviour
Requested == {S \in SUBSET SystemIds : Cardinality(S) = 2}

\* INCIDENTS_WORKER_URL is read by the two worker-backed pipelines only:
\* both of its values are drawn when one of them is requested
Init ==
    /\ inp \in [fn : {"getIncidents"}, systemIds : Requested]
    /\ \E urlSet \in (IF inp.systemIds \cap {"wmata", "tokyo-metro"} = {}
                      THEN {FALSE} ELSE BOOLEAN) : AggInit(urlSet)
    /\ out = Pending

\* the tail of getIncidents stamping the entry with the time the call
\* started instead of the time its fetch completed
ReturnStampedAtStart(c, systemId, startedAt, net, dispatched, fetched, result) ==
    /\ incidentCache' = IF fetched.kind = "data"
                        THEN CacheSet(incidentCache, systemId, fetched.data, startedAt)
                        ELSE incidentCache
    /\ calls' = [calls EXCEPT ![c] = Idle]
    /\ lastCall' = [lastCall EXCEPT ![systemId] =
                      [has |-> TRUE, at |-> startedAt, net |-> net,
                       dispatched |-> dispatched, fetched |-> fetched,
                       result |-> result,
                       seenAt |-> IF incidentCache[systemId].has
                                  THEN incidentCache[systemId].fetchedAt ELSE -1]]

\* the tail of getIncidents, from `if (data)` to the return.  fetched is
\* what the pipeline produced (dispatched: whether one was run), result
\* what the caller gets: the cached data, the fetched data, null, or a
\* rejection when the pipeline threw.  lastCall keeps the outcome, and
\* seenAt the fetchedAt of the entry the call found in the cache (-1: none).
Return(c, systemId, startedAt, net, dispatched, fetched, result) ==
    /\ incidentCache' = IF fetched.kind = "data"
                        THEN CacheSet(incidentCache, systemId, fetched.data, now)
                        ELSE incidentCache
    /\ calls' = [calls EXCEPT ![c] = Idle]
    /\ lastCall' = [lastCall EXCEPT ![systemId] =
                      [has |-> TRUE, at |-> startedAt, net |-> net,
                       dispatched |-> dispatched, fetched |-> fetched,
                       result |-> result,
                       seenAt |-> IF incidentCache[systemId].has
                                  THEN incidentCache[systemId].fetchedAt ELSE -1]]

\* out, in an observed behaviour: the upstream answers consumed by the
\* call that returns in this step (none when it did not use the network)
Observe(responses) == out' = IF Observed THEN Result(responses) ELSE out

\* out, where the feed is followed: a call for systemId made at startedAt
\* returns result, taken from the cache entry (hit) or computed from the
\* feed that fetchMtaMarylandFeed returned, whose cache is feedCache
Follow(systemId, startedAt, hit, result, feedCache) ==
    out' = IF ~FeedFollowed \/ systemId \notin BaltimoreSystems \/ result.kind # "data"
           THEN out
           ELSE LET feed == IF hit THEN out.behind[systemId] ELSE FeedAt(feedCache.fetchedAt)
                IN FeedLog([out.behind EXCEPT ![systemId] = feed],
                           [has |-> TRUE, systemId |-> systemId, at |-> startedAt,
                            feed |-> feed])

\* the slot a new request runs in
FreeSlot(c) ==
    /\ calls[c].pc = "idle"
    /\ \A d \in Callers : d < c => calls[d].pc # "idle"

\* getIncidents(systemId), from its entry to its first await on the
\* network, or to its return when it does not wait for the network
getIncidents(c, systemId) ==
    LET cached == incidentCache[systemId]
        feedFresh == CacheFresh(mtaMarylandFeedCache, now, MTA_MARYLAND_FEED_CACHE_TTL)
        net == Requests(systemId, workerUrlSet, feedFresh)
        mta == fetchMtaMarylandFeed(mtaMarylandFeedCache, TRUE, Failed("none"), now)
        data == Dispatch(systemId, <<>>, mta.feed, workerUrlSet, now)
    IN /\ FreeSlot(c)
       /\ systemId \in inp.systemIds
       /\ started < CallBudget
       /\ started' = started + 1
       /\ UNCHANGED <<now, workerUrlSet, mtaMarylandFeedCache, inp, wrkVars, idxVars>>
       /\ IF ~IsSupported(systemId)
          THEN Return(c, systemId, now, 0, FALSE, Null, Null) /\ Observe(<<>>)
          ELSE IF CacheFresh(cached, now, CACHE_TTL)
          THEN /\ Return(c, systemId, now, 0, FALSE, Null, Data(cached.data))
               /\ IF FeedFollowed
                  THEN Follow(systemId, now, TRUE, Data(cached.data), mtaMarylandFeedCache)
                  ELSE Observe(<<>>)
          ELSE IF net = 0
          THEN /\ Return(c, systemId, now, 0, TRUE, data, data)
               /\ IF FeedFollowed
                  THEN Follow(systemId, now, FALSE, data, mtaMarylandFeedCache)
                  ELSE Observe(<<>>)
          ELSE /\ calls' = [calls EXCEPT ![c] =
                              [pc |-> "fetching", systemId |-> systemId,
                               startedAt |-> now, net |-> net]]
               /\ UNCHANGED <<incidentCache, lastCall, out>>

\* the continuation of getIncidents once the upstream requests of its
\* pipeline have been answered
getIncidentsResume(c) ==
    /\ calls[c].pc = "fetching"
    /\ ~Silent
    /\ \E responses \in Answers(calls[c].systemId) :
          LET k == calls[c]
              mta == fetchMtaMarylandFeed(mtaMarylandFeedCache, FALSE, responses[1], now)
              isMta == k.systemId \in {"baltimore-metro", "baltimore-light-rail"}
              data == Dispatch(k.systemId, responses, mta.feed, workerUrlSet, now)
          IN /\ mtaMarylandFeedCache' = IF isMta THEN mta.cache ELSE mtaMarylandFeedCache
             /\ Return(c, k.systemId, k.startedAt, k.net, TRUE, data, data)
             /\ IF FeedFollowed
                THEN Follow(k.systemId, k.startedAt, FALSE, data, mta.cache)
                ELSE Observe(responses)
    /\ UNCHANGED <<now, workerUrlSet, started, inp, wrkVars, idxVars>>

\* getStationOutages after `await getIncidents(systemId)`: incidents is
\* what that call resolved to, or its rejection, which propagates
getStationOutages(incidents, stationId) ==
    IF incidents.kind = "throw" THEN Throw
    ELSE IF incidents.kind = "null" THEN [kind |-> "array", items |-> <<>>]
    ELSE IF stationId \in DOMAIN incidents.data.outagesByStation
    THEN [kind |-> "array", items |-> incidents.data.outagesByStation[stationId]]
    ELSE [kind |-> "array", items |-> <<>>]

\* the clock advances by one step
Tick ==
    /\ now < Horizon
    /\ now' = now + Step
    /\ UNCHANGED <<incidentCache, mtaMarylandFeedCache, workerUrlSet, calls,
                   lastCall, started, inp, out, wrkVars, idxVars>>

Next ==
    \/ \E c \in Callers, systemId \in SystemIds : getIncidents(c, systemId)
    \/ \E c \in Callers : getIncidentsResume(c)
    \/ Tick

Spec == Init /\ [][Next]_vars

\* one system per behaviour, with the upstream answers observed
InitFetch ==
    /\ inp \in [fn : {"getIncidents, observed"}, systemIds : {{s} : s \in SystemIds}]
    /\ \E urlSet \in (IF inp.systemIds \cap {"wmata", "tokyo-metro"} = {}
                      THEN {FALSE} ELSE BOOLEAN) : AggInit(urlSet)
    /\ out = Pending

SpecFetch == InitFetch /\ [][Next]_vars

\* the two Baltimore systems, the age of their feed followed
InitBaltimore ==
    /\ inp = [fn |-> "getIncidents, feed followed", systemIds |-> BaltimoreSystems]
    /\ AggInit(FALSE)
    /\ out = FeedLog([s \in BaltimoreSystems |-> NoFeed], NoFeed)

SpecBaltimore == InitBaltimore /\ [][Next]_vars

\* one system per behaviour, upstream either answering or silent
InitLive ==
    /\ inp \in [fn : {"getIncidents, observed"}, systemIds : {{s} : s \in SystemIds},
                silent : BOOLEAN]
    /\ \E urlSet \in (IF inp.systemIds \cap {"wmata", "tokyo-metro"} = {}
                      THEN {FALSE} ELSE BOOLEAN) : AggInit(urlSet)
    /\ out = Pending

\* Fairness: the clock advances, and a fetch whose upstream answers does
\* settle, after which the event loop runs the continuation of the call.
\* fetch is called without a signal and nothing else in getIncidents is
\* driven by a timer, so no step is owed to a call whose upstream is silent.
SpecLive ==
    /\ InitLive
    /\ [][Next]_vars
    /\ WF_vars(Tick)
    /\ \A c \in Callers : WF_vars(getIncidentsResume(c))

-----------------------------------------------------------------------------
(* Properties of the aggregator *)

\* this step is a getIncidents(systemId) call that returns without waiting
ReturnsAtOnce(systemId) ==
    /\ started' = started + 1
    /\ calls' = calls
    /\ lastCall'[systemId] # lastCall[systemId]

\* this step is a getIncidents(systemId) call that starts waiting for the network
StartsFetching(systemId) ==
    /\ started' = started + 1
    /\ \E c \in Callers : /\ calls[c].pc = "idle"
                          /\ calls'[c].pc = "fetching"
                          /\ calls'[c].systemId = systemId

\* this step is a return of getIncidents(systemId), at once or after the fetch
Returns(systemId) == lastCall'[systemId] # lastCall[systemId]

\* the call made in this step returns what the previous call for the same
\* system returned, without any network request
SameAsPreviousCall(systemId) ==
    /\ ReturnsAtOnce(systemId)
    /\ lastCall'[systemId].result = lastCall[systemId].result
    /\ lastCall'[systemId].net = 0

\* C1 as stated: for every supported systemId, a getIncidents call made
\* less than CACHE_TTL after the previous call for that system (no refresh
\* in between) returns the same data as that call and issues no network
\* request.
C1_SecondCallWithinTtlIsCacheHit ==
    [][\A s \in supportedSystems :
          (/\ ReturnsAtOnce(s) \/ StartsFetching(s)
           /\ lastCall[s].has
           /\ now - lastCall[s].at < CACHE_TTL)
          => SameAsPreviousCall(s)]_vars

\* C1, amended: for every supported systemId, when the previous call for
\* that system returned data and the new call is made less than CACHE_TTL
\* after the fetchedAt of the cache entry that data came from (no refresh in
\* between), the new call returns the same data and issues no network
\* request.
C1_CallWithinTtlOfEntryIsCacheHit ==
    [][\A s \in supportedSystems :
          (/\ ReturnsAtOnce(s) \/ StartsFetching(s)
           /\ lastCall[s].has
           /\ lastCall[s].result.kind = "data"
           /\ now - incidentCache[s].fetchedAt < CACHE_TTL)
          => SameAsPreviousCall(s)]_vars

\* a call has been served from an entry stored at an earlier time
C1_Witness ==
    \E s \in supportedSystems :
        /\ lastCall[s].has
        /\ ~lastCall[s].dispatched
        /\ lastCall[s].net = 0
        /\ lastCall[s].result.kind = "data"
        /\ lastCall[s].result.data = incidentCache[s].data
        /\ lastCall[s].at > incidentCache[s].fetchedAt

\* C2 as stated, for a pipeline that fails by returning null: when the
\* entry of a supported systemId is missing or expired and the pipeline
\* returns null, getIncidents returns the cached IncidentData if the
\* system has a cache entry, and null only when it has none.  (No call
\* for the system has finished since, so incidentCache still holds what
\* the failing call found.)
C2_FailureFallsBackToCache ==
    \A s \in supportedSystems :
        (lastCall[s].has /\ lastCall[s].dispatched /\ lastCall[s].fetched.kind = "null")
        => lastCall[s].result = IF incidentCache[s].has
                                THEN Data(incidentCache[s].data) ELSE Null

\* C3 as stated: getIncidents never rejects; every call resolves to an
\* IncidentData or to null, whatever the upstream answers.
C3_NeverThrows ==
    \A s \in SystemIds : lastCall[s].has => lastCall[s].result.kind # "throw"

\* C4: for a systemId outside the supported list getIncidents returns null
\* in the step of the call, with no pipeline dispatched and no network
\* request, and leaves incidentCache (and the feed cache) unchanged.
C4_UnsupportedReturnsNull ==
    /\ [](\A s \in SystemIds \ supportedSystems :
            /\ incidentCache[s] = NoEntry
            /\ \A c \in Callers : calls[c].pc = "fetching" => calls[c].systemId # s
            /\ lastCall[s].has => /\ lastCall[s].result = Null
                                  /\ lastCall[s].net = 0
                                  /\ ~lastCall[s].dispatched)
    /\ [][\A s \in SystemIds \ supportedSystems :
            Returns(s) => /\ ReturnsAtOnce(s)
                          /\ incidentCache' = incidentCache
                          /\ mtaMarylandFeedCache' = mtaMarylandFeedCache]_vars

\* an unsupported id has been requested after an entry was cached
C4_Witness ==
    \E s \in SystemIds \ supportedSystems, o \in supportedSystems :
        /\ lastCall[s].has
        /\ incidentCache[o].has
        /\ lastCall[s].at > incidentCache[o].fetchedAt

\* C5: when the pipeline of a call succeeds, the system's cache entry
\* becomes exactly the fetched IncidentData stamped with the current time,
\* the entries of all other systems are unchanged, and the call returns
\* the fetched data.
C5_SuccessReplacesEntry ==
    [][\A s \in supportedSystems :
          (Returns(s) /\ lastCall'[s].fetched.kind = "data")
          => /\ incidentCache'[s] = Entry(lastCall'[s].fetched.data, now)
             /\ lastCall'[s].result = lastCall'[s].fetched
             /\ \A o \in SystemIds \ {s} : incidentCache'[o] = incidentCache[o]]_vars

\* a successful fetch has replaced an earlier entry that held other data
C5_Witness ==
    \E s \in supportedSystems :
        /\ lastCall[s].has
        /\ lastCall[s].fetched.kind = "data"
        /\ lastCall[s].seenAt >= 0
        /\ incidentCache[s].fetchedAt > lastCall[s].seenAt
        /\ DOMAIN lastCall[s].fetched.data.outagesByStation = {}

\* the answers with which every adapter of systemId succeeds with an
\* empty list (for the two worker-backed systems: the worker's JSON built
\* from an empty list)
EmptyAnswers(systemId) ==
    IF systemId = "bart"
    THEN {<<Ok([root |-> TRUE, bsa |-> <<>>]), Ok([root |-> TRUE, bsa |-> <<>>])>>}
    ELSE IF systemId = "nyc-subway" THEN {<<Ok(<<>>), Ok(<<>>)>>}
    ELSE IF systemId = "cta" THEN {<<Ok([CTAAlerts |-> TRUE, Alert |-> <<>>])>>}
    ELSE IF systemId = "wmata" THEN {<<Ok(processIncidents(<<>>, 0))>>}
    ELSE IF systemId = "tokyo-metro" THEN {<<Ok(processTrainInfo(<<>>, 0))>>}
    ELSE {<<Ok(<<>>)>>}

\* every count of the summary (the WMATA worker's has no activeAlerts)
ZeroSummary(data) ==
    /\ {"totalOutages", "elevatorOutages", "escalatorOutages", "stationsAffected"}
         \subseteq DOMAIN data.summary
    /\ \A f \in DOMAIN data.summary : data.summary[f] = 0

\* the fields every IncidentData has
IncidentDataFields == {"fetchedAt", "systemId", "summary", "outagesByStation"}

\* C28: under any interleaving of overlapping getIncidents calls for one
\* system, its cache entry is at every moment absent or the complete
\* IncidentData of exactly one successful fetch with the time that fetch
\* completed: every step that changes the entry is the return of one call
\* whose pipeline produced data, the new entry is that data as a whole
\* stamped with the current time, an entry never disappears and its
\* fetchedAt never decreases.
C28_EntryIsOneWholeFetch ==
    [][\A s \in SystemIds :
          /\ incidentCache'[s] # incidentCache[s]
               => /\ lastCall'[s].has
                  /\ lastCall'[s].dispatched
                  /\ lastCall'[s].fetched.kind = "data"
                  /\ incidentCache'[s] = Entry(lastCall'[s].fetched.data, now)
                  /\ IncidentDataFields \subseteq DOMAIN incidentCache'[s].data
                  /\ incidentCache'[s].data.systemId = s
          /\ incidentCache[s].has
               => /\ incidentCache'[s].has
                  /\ incidentCache'[s].fetchedAt >= incidentCache[s].fetchedAt]_vars

\* two calls for one system overlapped and both wrote the entry: the call
\* that returned last had dispatched a fetch, and at its return it found
\* an entry written after it had started
C28_Witness ==
    \E s \in supportedSystems :
        /\ lastCall[s].has
        /\ lastCall[s].dispatched
        /\ lastCall[s].net > 0
        /\ lastCall[s].fetched.kind = "data"
        /\ lastCall[s].seenAt > lastCall[s].at
        /\ incidentCache[s] = Entry(lastCall[s].fetched.data, now)

\* C30 as stated: for the two Baltimore systems the IncidentData returned
\* by getIncidents is always derived from a feed that was fetched from
\* upstream no more than 5 minutes before the call.
C30_FeedNoOlderThanTtl ==
    (FeedFollowed /\ out.done)
    => out.returned.at - out.returned.feed.fetchedAt <= CACHE_TTL

\* C13: when every adapter of a supported system succeeds with an empty
\* list, the pipeline produces an IncidentData (not null) whose summary
\* counts are all zero and whose outagesByStation is empty, and
\* getIncidents caches that object and returns it.
C13_EmptyUpstreamIsZeroData ==
    \A s \in supportedSystems :
        (lastCall[s].has /\ out.done /\ out.val \in EmptyAnswers(s))
        => /\ lastCall[s].fetched.kind = "data"
           /\ ZeroSummary(lastCall[s].fetched.data)
           /\ DOMAIN lastCall[s].fetched.data.outagesByStation = {}
           /\ lastCall[s].result = lastCall[s].fetched
           /\ incidentCache[s].has
           /\ incidentCache[s].data = lastCall[s].fetched.data

\* a call that found an entry in the cache has fetched an empty list
C13_Witness ==
    \E s \in supportedSystems :
        /\ lastCall[s].has /\ out.done /\ out.val \in EmptyAnswers(s)
        /\ lastCall[s].seenAt >= 0
        /\ incidentCache[s].fetchedAt > lastCall[s].seenAt

\* the call that returned last consumed upstream answers, and every one
\* of them was a non-2xx status or an undecodable body
AllUnavailable ==
    /\ out.done
    /\ Len(out.val) > 0
    /\ \A i \in 1..Len(out.val) : out.val[i].status \in {"non2xx", "undecodable"}

\* the entry of s is the one the call that returned last had found
EntryUntouched(s) ==
    IF lastCall[s].seenAt >= 0
    THEN incidentCache[s].has /\ incidentCache[s].fetchedAt = lastCall[s].seenAt
    ELSE ~incidentCache[s].has

\* C16 as stated: when every upstream request of a pipeline is
\* unavailable (non-2xx or undecodable), the pipeline reports null and
\* getIncidents leaves the system's cache entry as it found it; no
\* zero-count IncidentData is cached for the outage.
C16_OutageIsNullAndNotCached ==
    \A s \in supportedSystems :
        (lastCall[s].has /\ AllUnavailable)
        => /\ lastCall[s].fetched = Null
           /\ EntryUntouched(s)

\* of the two concurrent requests of the call that returned last, request
\* i was rejected (network error) and the other one answered a list of one
OnlyRejected(i) ==
    /\ out.done
    /\ Len(out.val) = 2
    /\ out.val[i].status = "neterr"
    /\ out.val[3 - i].status = "ok"
    /\ out.val[3 - i].body # <<>>
    /\ out.val[3 - i].body # [root |-> TRUE, bsa |-> <<>>]

\* C17 as stated, for the two pipelines that issue concurrent requests
\* (NYC alerts + elevator feed, BART advisories + elevator status): when
\* one request is rejected and its sibling succeeds, the sibling's data
\* is not discarded: the pipeline still produces an IncidentData, holding
\* the sibling's alert or outage.
C17_RejectedFetchKeepsSibling ==
    \A s \in {"nyc-subway", "bart"} :
        (lastCall[s].has /\ (OnlyRejected(1) \/ OnlyRejected(2)))
        => /\ lastCall[s].fetched.kind = "data"
           /\ lastCall[s].fetched.data.summary.activeAlerts
                + lastCall[s].fetched.data.summary.totalOutages > 0

\* C18 as stated: every getIncidents call eventually returns, also when
\* the upstream never answers: a call waiting for the network is
\* eventually back from it.
C18_EveryCallReturns ==
    \A c \in Callers : (calls[c].pc = "fetching") ~> (calls[c].pc = "idle")

\* station ids asked for: two with outages in some answer, one without
AskedStations == {"embarcadero", "westlake", "metro-center", "nowhere"}

\* C15 as stated, for getStationOutages: whatever getIncidents(systemId)
\* did, getStationOutages(systemId, stationId) returns an array, the
\* station's list when the call produced data holding that station and the
\* empty array otherwise; it never fails.
C15_StationOutagesAlwaysArray ==
    \A s \in SystemIds, stationId \in AskedStations :
        lastCall[s].has
        => LET r == lastCall[s].result
           IN getStationOutages(r, stationId) =
                [kind |-> "array",
                 items |-> IF r.kind = "data"
                              /\ stationId \in DOMAIN r.data.outagesByStation
                           THEN r.data.outagesByStation[stationId] ELSE <<>>]

-----------------------------------------------------------------------------
(* Evaluation of the pure functions: the initial state draws the argument, *)
(* one action per function applies it.                                     *)

InitNorm ==
    /\ AggQuiet
    /\ inp \in [fn : {"normalizeStationName", "normalizeName"}, arg : Names]
    /\ out = Pending

ApplyNormalizeStationName ==
    /\ inp.fn = "normalizeStationName" /\ ~out.done
    /\ out' = Result(normalizeStationName(inp.arg))
    /\ UNCHANGED <<aggVars, inp>>

ApplyNormalizeName ==
    /\ inp.fn = "normalizeName" /\ ~out.done
    /\ out' = Result(normalizeName(inp.arg))
    /\ UNCHANGED <<aggVars, inp>>

NextNorm == ApplyNormalizeStationName \/ ApplyNormalizeName

SpecNorm == InitNorm /\ [][NextNorm]_vars

\* C9: station-name normalization is idempotent, for the live resolver's
\* normalizeStationName and for the offline matcher's normalizeName:
\* normalizing an already normalized name returns it unchanged.
C9_NormalizeIdempotent ==
    out.done =>
        /\ inp.fn = "normalizeStationName" => normalizeStationName(out.val) = out.val
        /\ inp.fn = "normalizeName" => normalizeName(out.val) = out.val

\* a name on which every step of the normalization has work to do has
\* been normalized (upper case, dash, parenthetical, repeated blanks)
C9_Witness ==
    /\ out.done
    /\ inp.arg = <<"B", "-", "(", ")">>
    /\ out.val = <<"b">>

\* C20 as stated: for every input string the runtime normalizeStationName
\* and the offline normalizeName return the same result: whichever of the
\* two was applied, the other gives the same string for that input.
C20_NormalizersAgree ==
    out.done
    => /\ out.val = normalizeStationName(inp.arg)
       /\ out.val = normalizeName(inp.arg)

-----------------------------------------------------------------------------
(* The offline matcher on one CSV row *)

InitMatch ==
    /\ AggQuiet
    /\ inp \in [fn : {"BestStation"}, row : CsvRows, candidates : CandidateLists]
    /\ out = Pending

ApplyBestStation ==
    /\ inp.fn = "BestStation" /\ ~out.done
    /\ out' = Result(BestStation(inp.row, inp.candidates))
    /\ UNCHANGED <<aggVars, inp>>

NextMatch == ApplyBestStation

SpecMatch == InitMatch /\ [][NextMatch]_vars

\* every route of the record is served by the station (a shuttle route
\* "S" is served through any of its canonical shuttle lines)
FullOverlap(row, c) ==
    /\ Len(row.daytimeRoutes) > 0
    /\ \A i \in 1..Len(row.daytimeRoutes) :
          \/ row.daytimeRoutes[i] \in c.lines
          \/ Range(SHUTTLE_ROUTE_MAP(row.daytimeRoutes[i])) \cap c.lines # {}

ZeroOverlap(row, c) == lineOverlap(row.daytimeRoutes, c.lines) = 0

\* the two-candidate case of the claim: index k has full overlap, the
\* other candidate has none
FullVersusZero(k) ==
    /\ out.done
    /\ Len(inp.candidates) = 2
    /\ FullOverlap(inp.row, inp.candidates[k])
    /\ ZeroOverlap(inp.row, inp.candidates[3 - k])

DistOf(c) ==
    IF c.hasCoordinates THEN haversineMeters(c.lat, c.lng, inp.row.lat, inp.row.lng)
    ELSE Infinity

C25_OverlapAloneWithoutCoordinates ==
    (/\ out.done
     /\ \A i \in 1..Len(inp.candidates) : ~inp.candidates[i].hasCoordinates)
    => LET n == Len(inp.candidates)
           score(i) == lineOverlap(inp.row.daytimeRoutes, inp.candidates[i].lines)
           top == {i \in 1..n : \A k \in 1..n : score(i) >= score(k)}
       IN out.val = inp.candidates[CHOOSE i \in top : \A k \in top : i <= k]

-----------------------------------------------------------------------------
(* The pipelines on bounded upstream payloads *)

\* epoch seconds: absent, a date in range, a date out of range
FeedTimes == {0, 1700, 9000000}

NoAlertEntity == GtfsEntity(FALSE, {}, {}, <<>>, 0)

SoundTransitEntities ==
    {GtfsEntity(TRUE, h, d, <<Informed("1LINE", "", "")>>, st) :
        h \in {{}, {"elevator", "westlake"}},
        d \in {{}, {"escalator", "out of service", "stadium"}, {"closed", "westlake"}},
        st \in FeedTimes}
    \cup {NoAlertEntity}

BaltimoreEntities ==
    {GtfsEntity(TRUE, h, d, inf, st) :
        h \in {{}, {"elevator", "lexington market"}},
        d \in {{}, {"escalator", "unavailable", "upton", "penn station"}},
        inf \in {<<Informed("11682", "", "")>>,
                 <<Informed("11682", "", ""), Informed("", "s0011", "")>>,
                 <<Informed("11693", "", ""), Informed("", "s7020", ""),
                   Informed("", "s7034", "")>>},
        st \in {0, 9000000}}

NycEntities ==
    {GtfsEntity(TRUE, {}, {}, <<Informed("GS", "", "MTASBWY")>>, 0),
     GtfsEntity(TRUE, {}, {}, <<Informed("SI", "", "MTASIR")>>, 0),
     GtfsEntity(TRUE, {}, {}, <<Informed("4", "", "MTASBWY")>>, 9000000)}

FeedResponses(entities) ==
    Failures \cup {Ok(e) : e \in SeqsUpTo(entities, MaxFeed)}

NycFeedResponses ==
    {Failed("non2xx"), Ok(<<>>)} \cup {Ok(<<e>>) : e \in NycEntities}

NycOutages ==
    {[station |-> st, trainno |-> tr, equipmenttype |-> ty, equipmentno |-> "1",
      isupcomingoutage |-> "N"] :
        st \in {<<"B", "/", "a">>, <<"a">>, <<"b">>},
        tr \in {<<>>, <<"GS">>, <<"4", "6">>},
        ty \in {"EL", "ES"}}
    \cup {[station |-> <<"a">>, trainno |-> <<"6">>, equipmenttype |-> "EL",
           equipmentno |-> "2", isupcomingoutage |-> "Y"]}

EneResponses ==
    Failures \cup {Ok(d) : d \in SeqsUpTo(NycOutages, MaxFeed)}

BartBsaResponses ==
    {Failed("non2xx"),
     Ok([root |-> FALSE, bsa |-> <<>>]), Ok([root |-> TRUE, bsa |-> <<>>]),
     Ok([root |-> TRUE, bsa |-> <<[id |-> "1", type |-> "DELAY"]>>])}

MaxCodes == 2       \* station codes named in one BART elevator notice

BartElevResponses ==
    {Failed("neterr"), Ok([root |-> FALSE, bsa |-> <<>>])}
    \cup {Ok([root |-> TRUE, bsa |-> n]) :
            n \in SeqsUpTo([codes : SeqsUpTo({"BAYF", "EMBR", "XXXX"}, MaxCodes)], MaxFeed)}

CtaAlerts ==
    [AlertId : {"1"},
     Headline : {{}, {"elevator", "95th/Dan Ryan", "95th"}},
     ShortDescription : {{}, {"out of service"}, {"escalator", "closed", "Clark/Lake"}},
     SeverityScore : {<<"6", "0">>}, SeverityCSS : {"normal"}, MajorAlert : {"0", "1"},
     EventStart : {"2024-01-01"}, EventEnd : {"null"},
     Service : {<<[ServiceType |-> "R", ServiceId |-> "Red"]>>,
                <<[ServiceType |-> "B", ServiceId |-> "22"]>>}]

CtaResponses ==
    Failures \cup {Ok([CTAAlerts |-> FALSE, Alert |-> <<>>])}
    \cup {Ok([CTAAlerts |-> TRUE, Alert |-> a]) : a \in SeqsUpTo(CtaAlerts, MaxFeed)}

WmataIncidents ==
    SeqsUpTo([UnitName : {"u"}, UnitType : {"ELEVATOR", "ESCALATOR"},
              StationCode : {"A01", "B01", "Z99"}], MaxFeed)

OdptEntries ==
    SeqsUpTo([railway : {"Ginza", "Other"}, hasStatus : BOOLEAN,
              status : {{}, {"delay"}, {"suspend"}}], MaxFeed)

InProcessPipelines ==
    {"fetchBartIncidents", "fetchSoundTransitIncidents", "fetchNycSubwayIncidents",
     "fetchBaltimoreMetroIncidents", "fetchBaltimoreLightRailIncidents",
     "fetchCtaIncidents"}

WmataPipelines == {"processIncidents", "wmataScriptMain"}

PipeInputs ==
    [fn : {"fetchSoundTransitIncidents"}, response : FeedResponses(SoundTransitEntities)]
    \cup [fn : {"fetchBaltimoreMetroIncidents", "fetchBaltimoreLightRailIncidents"},
          response : FeedResponses(BaltimoreEntities)]
    \cup [fn : {"fetchNycSubwayIncidents"}, alertsResponse : NycFeedResponses,
          eneResponse : EneResponses]
    \cup [fn : {"fetchBartIncidents"}, bsaResponse : BartBsaResponses,
          elevResponse : BartElevResponses]
    \cup [fn : {"fetchCtaIncidents"}, response : CtaResponses]
    \cup [fn : WmataPipelines, incidents : WmataIncidents]
    \cup [fn : {"processTrainInfo"}, entries : OdptEntries]

InitPipe ==
    /\ AggQuiet
    /\ inp \in PipeInputs
    /\ out = Pending

Apply(fn, v) ==
    /\ inp.fn = fn /\ ~out.done
    /\ out' = Result(v)
    /\ UNCHANGED <<aggVars, inp>>

ApplyFetchSoundTransit ==
    Apply("fetchSoundTransitIncidents", fetchSoundTransitIncidents(inp.response, now))

ApplyFetchBaltimoreMetro ==
    Apply("fetchBaltimoreMetroIncidents",
          fetchBaltimoreMetroIncidents(fetchGtfsRtFeed(inp.response), now))

ApplyFetchBaltimoreLightRail ==
    Apply("fetchBaltimoreLightRailIncidents",
          fetchBaltimoreLightRailIncidents(fetchGtfsRtFeed(inp.response), now))

ApplyFetchNycSubway ==
    Apply("fetchNycSubwayIncidents", fetchNycSubwayIncidents(inp.alertsResponse, inp.eneResponse, now))

ApplyFetchBart ==
    Apply("fetchBartIncidents", fetchBartIncidents(inp.bsaResponse, inp.elevResponse, now))

ApplyFetchCta ==
    Apply("fetchCtaIncidents", fetchCtaIncidents(inp.response, now))

ApplyProcessIncidents ==
    Apply("processIncidents", Data(processIncidents(inp.incidents, now)))

ApplyWmataScript ==
    Apply("wmataScriptMain", Data(wmataScriptMain(inp.incidents, now)))

ApplyProcessTrainInfo ==
    Apply("processTrainInfo", Data(processTrainInfo(inp.entries, now)))

NextPipe ==
    \/ ApplyFetchSoundTransit
    \/ ApplyFetchBaltimoreMetro
    \/ ApplyFetchBaltimoreLightRail
    \/ ApplyFetchNycSubway
    \/ ApplyFetchBart
    \/ ApplyFetchCta
    \/ ApplyProcessIncidents
    \/ ApplyWmataScript
    \/ ApplyProcessTrainInfo

SpecPipe == InitPipe /\ [][NextPipe]_vars

\* a pipeline has produced an IncidentData
Produced == out.done /\ out.val.kind = "data"

Elevators(d) == CountType(d.outagesByStation, "elevator")

Escalators(d) == CountType(d.outagesByStation, "escalator")

\* C6: every IncidentData of an in-process pipeline has summary counts
\* that agree with its content: elevatorOutages is the number of elevator
\* entries of outagesByStation, escalatorOutages the number of escalator
\* entries, totalOutages their sum.
C6_SummaryAgreesWithContent ==
    (Produced /\ inp.fn \in InProcessPipelines) =>
        LET d == out.val.data
        IN /\ d.summary.elevatorOutages = Elevators(d)
           /\ d.summary.escalatorOutages = Escalators(d)
           /\ d.summary.totalOutages
                = d.summary.elevatorOutages + d.summary.escalatorOutages

\* a Sound Transit feed whose alerts put an elevator and an escalator
\* outage on record has been assembled
C6_Witness ==
    /\ Produced
    /\ inp.fn = "fetchSoundTransitIncidents"
    /\ out.val.data.summary.elevatorOutages = 1
    /\ out.val.data.summary.escalatorOutages = 1
    /\ out.val.data.summary.totalOutages = 2
    /\ DOMAIN out.val.data.outagesByStation = {"westlake", "stadium"}

\* C7: the WMATA pipeline (worker processIncidents and the batch script)
\* produces, for every list of raw incidents, totalOutages equal to
\* elevatorOutages + escalatorOutages.
C7_WmataTotalIsSum ==
    (Produced /\ inp.fn \in WmataPipelines) =>
        LET d == out.val.data
        IN d.summary.totalOutages
             = d.summary.elevatorOutages + d.summary.escalatorOutages

\* C8: every IncidentData produced by any pipeline has stationsAffected
\* equal to the number of keys of outagesByStation.
C8_StationsAffectedIsKeyCount ==
    Produced =>
        out.val.data.summary.stationsAffected
            = Cardinality(DOMAIN out.val.data.outagesByStation)

\* an IncidentData with more outages than stations has been assembled
C8_Witness ==
    /\ Produced
    /\ out.val.data.summary.stationsAffected = 1
    /\ out.val.data.summary.totalOutages = 2
    /\ Cardinality(DOMAIN out.val.data.outagesByStation) = 1

\* the stations the stop table gives for the stop ids of an alert
StationsByStopId(entity, stopMapping) ==
    {Lookup(stopMapping, entity.informed[k].stopId) :
        k \in {n \in 1..Len(entity.informed) : entity.informed[n].stopId # ""}} \ {""}

\* C21 as stated: when the informed entities of a Baltimore alert carry a
\* stop id that the stop table maps to a station, the alert's
\* affectedStations are exactly the stations of the stop-id lookup; the
\* text pattern search adds none.  (Stated on feeds all of whose entities
\* are relevant, so that alert k comes from entity k.)
C21_StopIdHitWins ==
    (/\ inp.fn \in {"fetchBaltimoreMetroIncidents", "fetchBaltimoreLightRailIncidents"}
     /\ Produced
     /\ Len(out.val.data.alerts) = Len(inp.response.body))
    => LET stopMapping == IF inp.fn = "fetchBaltimoreMetroIncidents"
                          THEN BALTIMORE_METRO_STOPS ELSE BALTIMORE_LIGHT_RAIL_STOPS
       IN \A k \in 1..Len(out.val.data.alerts) :
             StationsByStopId(inp.response.body[k], stopMapping) # {}
             => Range(out.val.data.alerts[k].affectedStations)
                  = StationsByStopId(inp.response.body[k], stopMapping)

\* the station keys the resolvable records of the input name, and the
\* number of resolvable records, per kind of input
ResolvedWmata ==
    {k \in 1..Len(inp.incidents) : inp.incidents[k].StationCode \in DOMAIN STATION_CODE_MAP}

ResolvedBart ==
    {<<k, n>> \in (1..MaxFeed + 1) \X (1..MaxCodes + 1) :
        /\ k <= Len(inp.elevResponse.body.bsa)
        /\ n <= Len(inp.elevResponse.body.bsa[k].codes)
        /\ inp.elevResponse.body.bsa[k].codes[n] \in DOMAIN BART_STATION_CODES}

ResolvedNyc ==
    IF inp.eneResponse.status # "ok" THEN {}
    ELSE {k \in 1..Len(inp.eneResponse.body) :
            /\ inp.eneResponse.body[k].isupcomingoutage # "Y"
            /\ normalizeStationName(inp.eneResponse.body[k].station)
                  \in DOMAIN getNycStationIndex}

Entries == SumLens(out.val.data.outagesByStation, DOMAIN out.val.data.outagesByStation)

-----------------------------------------------------------------------------
(* The classification helpers on bounded arguments *)

MaxEffect == 11     \* largest GTFS-Realtime effect value enumerated
MaxStations == 2    \* longest affectedStations list enumerated

\* alert.effect: -1 for null / undefined, else a value of the Effect enum
\* or an integer outside it (0)
Effects == -1..MaxEffect

TextWords == {"elevator", "escalator", "out of service", "unavailable", "closed",
              "outage", "delay"}

\* affectedStations as its callers build it: each station id once
StationLists ==
    {l \in SeqsUpTo({"s1", "s2", "s3"}, MaxStations) :
        \A i, j \in 1..Len(l) : i # j => l[i] # l[j]}

\* outagesByStation as earlier alerts of the same feed left it
EarlierOutages ==
    {NoKeys,
     "s1" :> <<SyntheticOutage("Elevator", "elevator", {"x"}, "p", "e")>>}

\* candidate lists of one normalized name: the station ids in index order
CandidateLines == {<<"4", "6">>, <<"1", "S-42">>, <<"6">>}

NycCandidates ==
    UNION {[1..n -> CandidateLines] : n \in 1..MaxListed}

NycCandidateLists ==
    {[i \in DOMAIN f |-> [id |-> i, lines |-> f[i]]] : f \in NycCandidates}

\* outage.trainno split at "/"; <<>> for an absent or empty train list
TrainLists == {<<>>, <<"GS">>, <<"4", "6">>, <<"4", "1">>, <<"SI">>, <<"6">>, <<"7">>}

MaxScoreLen == 3    \* longest SeverityScore text enumerated

ScoreTexts == SeqsUpTo({"0", "4", "5", "9", "x"}, MaxScoreLen)

TextInputs ==
    [fn : {"mapGtfsEffect"}, effect : Effects]
    \cup [fn : {"CtaAlertType"}, MajorAlert : {"0", "1"},
          SeverityCSS : {"normal", "planned", "special-note"},
          SeverityScore : ScoreTexts]
    \cup [fn : {"NycMatchedStation"}, candidates : NycCandidateLists, trainno : TrainLists]
    \cup [fn : {"detectEquipmentOutages"}, fullText : SUBSET TextWords,
          affectedStations : StationLists, outagesByStation : EarlierOutages]

InitText ==
    /\ AggQuiet
    /\ inp \in TextInputs
    /\ out = Pending

ApplyMapGtfsEffect ==
    /\ inp.fn = "mapGtfsEffect" /\ ~out.done
    /\ out' = Result(mapGtfsEffect(inp.effect))
    /\ UNCHANGED <<aggVars, inp>>

ApplyDetectEquipmentOutages ==
    /\ inp.fn = "detectEquipmentOutages" /\ ~out.done
    /\ out' = Result(detectEquipmentOutages(inp.fullText, inp.affectedStations,
                                            inp.outagesByStation, {"h"}, "p", "e"))
    /\ UNCHANGED <<aggVars, inp>>

\* the disambiguation step of the NYC outage loop
ApplyNycMatchedStation ==
    /\ inp.fn = "NycMatchedStation" /\ ~out.done
    /\ out' = Result(NycMatchedStation(inp.candidates, inp.trainno))
    /\ UNCHANGED <<aggVars, inp>>

\* the classification step of the CTA alert loop
ApplyCtaAlertType ==
    /\ inp.fn = "CtaAlertType" /\ ~out.done
    /\ out' = Result(CtaAlertType(inp))
    /\ UNCHANGED <<aggVars, inp>>

NextText ==
    \/ ApplyMapGtfsEffect
    \/ ApplyDetectEquipmentOutages
    \/ ApplyNycMatchedStation
    \/ ApplyCtaAlertType

SpecText == InitText /\ [][NextText]_vars

\* C11: mapGtfsEffect maps NO_SERVICE (1) to emergency, REDUCED_SERVICE (2),
\* SIGNIFICANT_DELAYS (3), DETOUR (4) and MODIFIED_SERVICE (6) to delay, and
\* every other value, null / undefined included, to advisory.
C11_EffectClassification ==
    (inp.fn = "mapGtfsEffect" /\ out.done)
    => /\ inp.effect = 1 => out.val = "emergency"
       /\ (inp.effect = 2 \/ inp.effect = 3 \/ inp.effect = 4 \/ inp.effect = 6)
            => out.val = "delay"
       /\ (inp.effect < 1 \/ inp.effect = 5 \/ inp.effect > 6) => out.val = "advisory"

\* MODIFIED_SERVICE, the value after the gap in the enumeration, has been
\* classified
C11_Witness ==
    inp.fn = "mapGtfsEffect" /\ out.done /\ inp.effect = 6 /\ out.val = "delay"

\* the entries the call appended to the list of stationId
AddedAt(stationId) ==
    LET before == IF stationId \in DOMAIN inp.outagesByStation
                  THEN inp.outagesByStation[stationId] ELSE <<>>
        after == IF stationId \in DOMAIN out.val.obs
                 THEN out.val.obs[stationId] ELSE <<>>
    IN IF Len(after) >= Len(before) /\ SubSeq(after, 1, Len(before)) = before
       THEN SubSeq(after, Len(before) + 1, Len(after))
       ELSE <<"lost">>

AddedOfType(stationId, ty) ==
    Cardinality({i \in 1..Len(AddedAt(stationId)) : AddedAt(stationId)[i].unitType = ty})

TextPairs(word) ==
    word \in inp.fullText
    /\ \E d \in {"out of service", "unavailable", "closed", "outage"} : d \in inp.fullText

\* C12: detectEquipmentOutages appends, for each affected station, exactly
\* one elevator entry iff the text pairs "elevator" with a disruption
\* keyword and exactly one escalator entry iff it pairs "escalator" with
\* one; it appends nothing else (nothing at all for an empty station list
\* or an unpaired text), and the two returned counts are the numbers of
\* entries appended.
C12_OneEntryPerKeywordPerStation ==
    (inp.fn = "detectEquipmentOutages" /\ out.done)
    => LET affected == Range(inp.affectedStations)
           all == {"s1", "s2", "s3"}
       IN /\ \A s \in affected :
                /\ AddedOfType(s, "elevator") = IF TextPairs("elevator") THEN 1 ELSE 0
                /\ AddedOfType(s, "escalator") = IF TextPairs("escalator") THEN 1 ELSE 0
                /\ Len(AddedAt(s)) = AddedOfType(s, "elevator") + AddedOfType(s, "escalator")
          /\ \A s \in all \ affected : AddedAt(s) = <<>>
          /\ DOMAIN out.val.obs \subseteq all
          /\ out.val.elevatorOutages =
                Cardinality({s \in all : AddedOfType(s, "elevator") = 1})
          /\ out.val.escalatorOutages =
                Cardinality({s \in all : AddedOfType(s, "escalator") = 1})

\* an alert naming both kinds of equipment has been detected at two
\* stations, one of which already had an entry
C12_Witness ==
    /\ inp.fn = "detectEquipmentOutages" /\ out.done
    /\ Len(inp.affectedStations) = 2
    /\ "s1" \in DOMAIN inp.outagesByStation
    /\ inp.affectedStations[1] = "s1"
    /\ out.val.elevatorOutages = 2 /\ out.val.escalatorOutages = 2
    /\ Len(out.val.obs["s1"]) = 3

\* the lines of the outage's train list after route mapping (SI dropped)
MappedTrains ==
    {IF t = "GS" THEN "S-42" ELSE t : t \in Range(inp.trainno) \ {"SI"}}

\* number of serving lines candidate i shares with the train list
SharedLines(i) ==
    Cardinality({n \in 1..Len(inp.candidates[i].lines) :
                    inp.candidates[i].lines[n] \in MappedTrains})

\* C24: in the live NYC outage resolver the candidate with the greatest
\* count of lines shared with the route-mapped train list is chosen, the
\* earliest in the index among those tied for it; when there is no train
\* list or no candidate shares a line, the first candidate is chosen.
C24_GreatestOverlapEarliestWins ==
    (inp.fn = "NycMatchedStation" /\ out.done)
    => LET n == Len(inp.candidates)
           top == {i \in 1..n : \A j \in 1..n : SharedLines(i) >= SharedLines(j)}
           first == CHOOSE i \in top : \A j \in top : i <= j
       IN IF inp.trainno = <<>> \/ \A i \in 1..n : SharedLines(i) = 0
          THEN out.val = inp.candidates[1]
          ELSE out.val = inp.candidates[first]

\* three candidates, the last two tied for the greatest overlap: the
\* second one has been chosen
C24_Witness ==
    /\ inp.fn = "NycMatchedStation" /\ out.done
    /\ Len(inp.candidates) = 3
    /\ SharedLines(1) < SharedLines(2)
    /\ SharedLines(2) = SharedLines(3)
    /\ out.val.id = 2

\* the score texts that are decimal numbers, with their values
AllDigits(str) == str # <<>> /\ \A i \in 1..Len(str) : str[i] \in DOMAIN DigitValue

RECURSIVE DecimalValue(_)
DecimalValue(str) ==
    IF str = <<>> THEN 0
    ELSE 10 * DecimalValue(SubSeq(str, 1, Len(str) - 1)) + DigitValue[str[Len(str)]]

\* the score texts no number can be read from
Unparsable(str) == str = <<>> \/ str[1] \notin DOMAIN DigitValue

\* C27: a CTA alert with MajorAlert '1' is emergency whatever its score
\* and category; otherwise it is delay iff its severity score is at least
\* 50 and its category is neither 'planned' nor 'special-note'; otherwise,
\* an unparsable score included, it is advisory.  (Stated for scores that
\* are decimal numbers and for scores no number can be read from.)
C27_CtaClassification ==
    (inp.fn = "CtaAlertType" /\ out.done)
    => /\ inp.MajorAlert = "1" => out.val = "emergency"
       /\ (inp.MajorAlert # "1" /\ AllDigits(inp.SeverityScore))
            => out.val = IF /\ DecimalValue(inp.SeverityScore) >= 50
                            /\ inp.SeverityCSS \notin {"planned", "special-note"}
                         THEN "delay" ELSE "advisory"
       /\ (inp.MajorAlert # "1" /\ Unparsable(inp.SeverityScore)) => out.val = "advisory"

\* an alert scoring exactly 50 in an ordinary category has been classified
C27_Witness ==
    /\ inp.fn = "CtaAlertType" /\ out.done
    /\ inp.MajorAlert = "0"
    /\ inp.SeverityCSS = "normal"
    /\ inp.SeverityScore = <<"5", "0">>
    /\ out.val = "delay"

====
